---- MODULE Spec2Model ----
(***************************************************************************)
(* Model of the action-extraction and validation protocol of the AI smoke  *)
(* test (src/ai-smoke-test/ai_smoke_test.py): parse_action and             *)
(* validate_and_retry_llm_response, and of the response normalizer and     *)
(* compatibility adapter of ai_smoke_test.py and ai_smoke_test_clean.py.   *)
(*                                                                         *)
(* A text is a sequence of tokens.  "{", "}" and "," are the characters    *)
(* themselves; every other token stands for a run of characters that holds *)
(* no brace, no newline, no backtick and no white space of its own, so     *)
(* that strip, startswith, endswith, split, find and rfind act on tokens   *)
(* exactly as they act on the characters:                                  *)
(*   NL "\n"   SP " "   FENCE "```"   JSONTAG "json"   word (prose)        *)
(*   kAction "\"action\":"  kParams "\"params\":"  kUrl "\"url\":"         *)
(*   sGoto "\"goto\""  sClick "\"click\""  APP_URL (the quoted target URL)         *)
(*   sEmpty "\"\""  num (a number)  null                                   *)
(*   deepValue: a value nested in more "[" than the interpreter's          *)
(*   recursion limit allows, on which json.loads raises RecursionError     *)
(*   kText "\"text\":"  sStartSinglePlayer "\"Start Single Player\""       *)
(***************************************************************************)
EXTENDS Integers, Sequences, FiniteSets, TLC

\* ------------------------------------------------------------------------
\* Bounds of the model
\* ------------------------------------------------------------------------

\* longest run of prose tokens put before an embedded JSON body
MaxPre == 1

\* longest run of prose tokens put after an embedded JSON body
MaxPost == 1

\* ------------------------------------------------------------------------
\* Program constants
\* ------------------------------------------------------------------------

APP_URL == "http://localhost:3000"

MODEL == "qwen2.5vl:3b"

\* the sampling temperature of every retry call
RetryTemperature == "0.1"

\* ------------------------------------------------------------------------
\* Tokens
\* ------------------------------------------------------------------------

Whitespace == {"NL", "SP"}

KeyTokens == {"kAction", "kParams", "kUrl"}

ScalarTokens == {"sGoto", "sClick", APP_URL, "sEmpty", "num", "null"}

\* values the decoder gives up on with an exception that is no JSONDecodeError
DeepTokens == {"deepValue"}

\* ------------------------------------------------------------------------
\* Python string operations, on token sequences.  Indices are Python's:
\* 0-based, -1 for "not found".
\* ------------------------------------------------------------------------

RECURSIVE LStrip(_)
LStrip(s) ==
    IF s # <<>> /\ Head(s) \in Whitespace THEN LStrip(Tail(s)) ELSE s

RECURSIVE RStrip(_)
RStrip(s) ==
    IF s # <<>> /\ s[Len(s)] \in Whitespace
    THEN RStrip(SubSeq(s, 1, Len(s) - 1))
    ELSE s

\* str.strip()
Strip(s) == RStrip(LStrip(s))

\* str.startswith(prefix)
StartsWith(s, prefix) ==
    /\ Len(s) >= Len(prefix)
    /\ SubSeq(s, 1, Len(prefix)) = prefix

\* str.endswith(suffix)
EndsWith(s, suffix) ==
    /\ Len(s) >= Len(suffix)
    /\ SubSeq(s, Len(s) - Len(suffix) + 1, Len(s)) = suffix

\* str.split('\n'): the list of lines, never empty
RECURSIVE SplitLines(_)
SplitLines(s) ==
    IF \A i \in 1..Len(s) : s[i] # "NL"
    THEN <<s>>
    ELSE LET i == CHOOSE k \in 1..Len(s) :
                      /\ s[k] = "NL"
                      /\ \A j \in 1..(k - 1) : s[j] # "NL"
         IN  <<SubSeq(s, 1, i - 1)>> \o SplitLines(SubSeq(s, i + 1, Len(s)))

\* '\n'.join(lines)
RECURSIVE JoinLines(_)
JoinLines(lines) ==
    IF lines = <<>> THEN <<>>
    ELSE IF Len(lines) = 1 THEN lines[1]
    ELSE lines[1] \o <<"NL">> \o JoinLines(Tail(lines))

\* the slice lines[2:-1]: one line too many dropped at the front
Interior_DropsTwo(lines) == SubSeq(lines, 3, Len(lines) - 1)

\* lines[1:-1]
Interior(lines) == SubSeq(lines, 2, Len(lines) - 1)

\* str.find(ch)
Find(s, ch) ==
    IF \E i \in 1..Len(s) : s[i] = ch
    THEN (CHOOSE i \in 1..Len(s) :
              /\ s[i] = ch
              /\ \A j \in 1..(i - 1) : s[j] # ch) - 1
    ELSE -1

\* str.rfind(ch)
RFind(s, ch) ==
    IF \E i \in 1..Len(s) : s[i] = ch
    THEN (CHOOSE i \in 1..Len(s) :
              /\ s[i] = ch
              /\ \A j \in (i + 1)..Len(s) : s[j] # ch) - 1
    ELSE -1

\* content[start:end+1] for 0 <= start <= end
Slice(s, start, end) == SubSeq(s, start + 1, end + 1)

\* ------------------------------------------------------------------------
\* json.loads, on token sequences.  Positions are 1-based indices into the
\* decoded text; a failed decode reports the position it stopped at, as
\* json.JSONDecodeError reports the offending character.
\* ------------------------------------------------------------------------

\* json.decoder.WHITESPACE.match(s, i).end()
RECURSIVE SkipWs(_, _)
SkipWs(s, i) ==
    IF i <= Len(s) /\ s[i] \in Whitespace THEN SkipWs(s, i + 1) ELSE i

Ok(pos) == [ok |-> TRUE, pos |-> pos, exc |-> "none"]

\* raise JSONDecodeError(msg, s, pos)
Fail(pos) == [ok |-> FALSE, pos |-> pos, exc |-> "JSONDecodeError"]

\* RecursionError: maximum recursion depth exceeded while decoding
TooDeep(pos) == [ok |-> FALSE, pos |-> pos, exc |-> "RecursionError"]

RECURSIVE ScanValue(_, _)
RECURSIVE ScanMember(_, _)

\* json.scanner: one value starting at i (a scalar or an object)
ScanValue(s, i) ==
    IF i > Len(s) THEN Fail(i)
    ELSE IF s[i] \in ScalarTokens THEN Ok(i + 1)
    ELSE IF s[i] \in DeepTokens THEN TooDeep(i)
    ELSE IF s[i] = "{"
         THEN LET j == SkipWs(s, i + 1)
              IN  IF j <= Len(s) /\ s[j] = "}" THEN Ok(j + 1)
                  ELSE ScanMember(s, j)
    ELSE Fail(i)

\* json.decoder.JSONObject: a member "key": value at i, then "," or "}"
ScanMember(s, i) ==
    IF i > Len(s) \/ s[i] \notin KeyTokens THEN Fail(i)
    ELSE LET v == ScanValue(s, SkipWs(s, i + 1))
         IN  IF ~v.ok THEN v
             ELSE LET k == SkipWs(s, v.pos)
                  IN  IF k > Len(s) THEN Fail(k)
                      ELSE IF s[k] = "}" THEN Ok(k + 1)
                      ELSE IF s[k] = "," THEN ScanMember(s, SkipWs(s, k + 1))
                      ELSE Fail(k)

\* json.loads(s) without its result: the whole of s is one value
JsonScan(s) ==
    LET v == ScanValue(s, SkipWs(s, 1))
    IN  IF ~v.ok THEN v
        ELSE LET e == SkipWs(s, v.pos)
             IN  IF e <= Len(s) THEN Fail(e) ELSE Ok(e)

\* a value's tokens without the insignificant white space
RECURSIVE Compact(_)
Compact(s) ==
    IF s = <<>> THEN <<>>
    ELSE IF Head(s) \in Whitespace THEN Compact(Tail(s))
    ELSE <<Head(s)>> \o Compact(Tail(s))

\* the members of the object whose first member starts at i, in order:
\* <<key, value>> pairs (s is a well-formed object)
RECURSIVE Members(_, _)
Members(s, i) ==
    IF i > Len(s) \/ s[i] \notin KeyTokens THEN <<>>
    ELSE LET b == SkipWs(s, i + 1)
             v == ScanValue(s, b)
             k == SkipWs(s, v.pos)
             m == <<s[i], Compact(SubSeq(s, b, v.pos - 1))>>
         IN  IF s[k] = "," THEN <<m>> \o Members(s, SkipWs(s, k + 1))
             ELSE <<m>>

\* the dict built from a list of members: a later duplicate key wins
DictOf(ms) ==
    [k \in {ms[i][1] : i \in 1..Len(ms)} |->
        LET last == CHOOSE i \in 1..Len(ms) :
                        /\ ms[i][1] = k
                        /\ \A j \in (i + 1)..Len(ms) : ms[j][1] # k
        IN  ms[last][2]]

\* the result of json.loads(s) for a text s that JsonScan accepts and that
\* starts with "{": a dict from keys to (compacted) values
JsonLoads(s) == DictOf(Members(s, SkipWs(s, SkipWs(s, 1) + 1)))

\* ------------------------------------------------------------------------
\* parse_action
\* ------------------------------------------------------------------------

\* Python's None, for an object and for a failure string
None == <<>>

\* a failure string: "no-json", "no-action", "no-params", or
\* f"bad-json: {e}" with e the decoder's diagnostic (its position)
Failure(tag) == <<tag>>

BadJson(pos) == <<"bad-json", pos - 1>>

\* the (obj, err) pair parse_action returns
Result(obj, err) == [obj |-> obj, err |-> err, exc |-> None]

\* parse_action does not return: exception exc leaves it
Raise(exc) == [obj |-> None, err |-> None, exc |-> <<exc>>]

\* lines 377-383: strip, then drop the first and the last line of a fence
Defence(raw_text) ==
    LET content == Strip(raw_text)
    IN  IF StartsWith(content, <<"FENCE", "JSONTAG">>) /\ EndsWith(content, <<"FENCE">>)
        THEN JoinLines(Interior(SplitLines(content)))
        ELSE IF StartsWith(content, <<"FENCE">>) /\ EndsWith(content, <<"FENCE">>)
        THEN JoinLines(Interior(SplitLines(content)))
        ELSE content

\* content.rfind('{') in place of content.find('{')
FirstBrace_Last(content) == RFind(content, "{")

\* lines 386-387
FirstBrace(content) == Find(content, "{")

\* content.find('}') in place of content.rfind('}')
LastBrace_First(content) == Find(content, "}")

LastBrace(content) == RFind(content, "}")

\* parse_action with the params check made before the action check
parse_action_ParamsFirst(raw_text) ==
    LET content == Defence(raw_text)
        start == FirstBrace(content)
        end == LastBrace(content)
    IN  IF start = -1 \/ end = -1 \/ end <= start
        THEN Result(None, Failure("no-json"))
        ELSE LET js == Slice(content, start, end)
                 scan == JsonScan(js)
             IN  IF ~scan.ok /\ scan.exc = "JSONDecodeError"
                 THEN Result(None, BadJson(scan.pos))
                 ELSE IF ~scan.ok THEN Raise(scan.exc)
                 ELSE LET obj == JsonLoads(js)
                      IN  IF "kParams" \notin DOMAIN obj
                          THEN Result(None, Failure("no-params"))
                          ELSE IF "kAction" \notin DOMAIN obj
                          THEN Result(None, Failure("no-action"))
                          ELSE Result(<<obj>>, None)

parse_action(raw_text) ==
    LET content == Defence(raw_text)
        start == FirstBrace(content)
        end == LastBrace(content)
    IN  IF start = -1 \/ end = -1 \/ end <= start
        THEN Result(None, Failure("no-json"))
        ELSE LET js == Slice(content, start, end)
                 scan == JsonScan(js)
             IN  IF ~scan.ok /\ scan.exc = "JSONDecodeError"
                 THEN Result(None, BadJson(scan.pos))
                 ELSE IF ~scan.ok THEN Raise(scan.exc)
                 ELSE LET obj == JsonLoads(js)
                      IN  IF "kAction" \notin DOMAIN obj
                          THEN Result(None, Failure("no-action"))
                          ELSE IF "kParams" \notin DOMAIN obj
                          THEN Result(None, Failure("no-params"))
                          ELSE Result(<<obj>>, None)


\* ------------------------------------------------------------------------
\* Texts the model endpoint and the caller supply
\* ------------------------------------------------------------------------

\* f'{{"action": "goto", "params": {{"url": "{APP_URL}"}}}}' (lines 416, 439)
GotoTemplate(url) ==
    <<"{", "kAction", "SP", "sGoto", ",", "SP", "kParams", "SP",
      "{", "kUrl", "SP", url, "}", "}">>

\* {"action": "click", "params": {}}
ClickObject == <<"{", "kAction", "SP", "sClick", ",", "SP", "kParams", "SP", "{", "}", "}">>

\* ```json\n<object>\n```
FencedObject == <<"FENCE", "JSONTAG", "NL">> \o ClickObject \o <<"NL", "FENCE">>

\* Here you go:\n```json\n<object>\n```
ProseObject == <<"word", "NL">> \o <<"FENCE", "JSONTAG", "NL">> \o GotoTemplate(APP_URL) \o <<"NL", "FENCE">>

\* no json here
NoJsonText == <<"word", "SP", "word">>

\* {"action": "goto",}
BadJsonText == <<"{", "kAction", "SP", "sGoto", ",", "}">>

\* I think {"action": "goto" "params": {}}
BadJsonText2 == <<"word", "SP", "{", "kAction", "sGoto", "SP", "kParams", "{", "}", "}">>

\* {"params": {}}
NoActionText == <<"{", "kParams", "SP", "{", "}", "}">>

\* {"action": "goto"}
NoParamsText == <<"{", "kAction", "SP", "sGoto", "}">>

\* {"action": "goto", "params": [[[[ ... ]]]]}
DeepParamsText == <<"{", "kAction", "SP", "sGoto", ",", "SP", "kParams", "SP", "deepValue", "}">>

Texts ==
    { GotoTemplate(APP_URL), ClickObject, FencedObject, ProseObject,
      NoJsonText, BadJsonText, BadJsonText2, NoActionText, NoParamsText,
      DeepParamsText }

\* the text of a chat message that is not a corrective one
PlainContent(label) == [instr |-> label, example |-> <<>>, error |-> None]

\* conversations a caller hands over (ainvoke, lines 232-242)
Conversations ==
    { << [role |-> "user", content |-> PlainContent("goal_prompt")] >>,
      << [role |-> "system", content |-> PlainContent("system_prompt")],
         [role |-> "user", content |-> PlainContent("goal_prompt")] >> }

\* models a wrapper is constructed with (OpenAICompatWrapper.__init__)
Models == {MODEL, "llava:7b"}

\* ------------------------------------------------------------------------
\* State
\* ------------------------------------------------------------------------

VARIABLES
    pc,             \* position in validate_and_retry_llm_response
    raw_content,    \* its argument raw_content
    messages,       \* its argument messages: the caller's conversation
    wrapper_model,  \* client_wrapper.model
    obj,            \* local obj
    err,            \* local err
    calls,          \* the chat.completions.create calls issued, in order
    responses,      \* how each of those calls ended, in order
    parse_attempts, \* number of parse_action calls made
    outcome,        \* how the coordinator ended
    messages0,      \* the caller's conversation as handed over
    lab,            \* parse_action's laboratory (ParseSpec)
    adapter,        \* a wrapper, the host call into it and its result (AdapterSpec)
    session,        \* the other wrapper instances of a process (SessionSpec)
    run             \* a run of a test driver (RunSpec)

vars ==
    <<pc, raw_content, messages, wrapper_model, obj, err, calls, responses,
      parse_attempts, outcome, messages0, lab, adapter, session, run>>

NoOutcome == [kind |-> "none", text |-> <<>>, obj |-> None, err |-> None]

\* return text, obj
Return(text, o) == [kind |-> "return", text |-> text, obj |-> o, err |-> None]

\* an exception of parse_action that leaves the coordinator uncaught
Propagate(exc) == [kind |-> exc[1], text |-> <<>>, obj |-> None, err |-> None]

\* raise ValueError(f"... Error: {err}\nLast response: {raw_content}") (line 458)
RaiseValueError(e, last_response) ==
    [kind |-> "ValueError", text |-> last_response, obj |-> None, err |-> e]

\* the laboratory before any input is drawn
LabIdle ==
    [phase |-> "idle", lead |-> <<>>, pre |-> <<>>, body |-> <<>>, post |-> <<>>,
     trail |-> <<>>, res |-> Result(None, None), style |-> "none",
     fres |-> Result(None, None)]

\* response.usage is None
NoUsage == [kind |-> "None"]

\* no response object.  completion and action are None while the object
\* has no attribute of that name
NoResponse ==
    [kind |-> "none", choices |-> <<>>, usage |-> NoUsage, completion |-> None,
     action |-> None]

\* a wrapper before any host is attached to it.  messages is the list object
\* of the host, handed its value when the host made the call
AdapterIdle ==
    [phase |-> "idle", variant |-> "main", convention |-> "create",
     messages |-> <<>>, model |-> MODEL, call_count |-> 0, calls |-> <<>>,
     upstream |-> NoResponse, result |-> NoResponse, prior |-> NoResponse,
     handed |-> <<>>]

\* a second wrapper of the adapter's class and a TestLLMWrapper, each with
\* its own counter; entered and started count the host calls made so far
SessionIdle ==
    [completed |-> 0, entered |-> 0,
     peer |-> [call_count |-> 0, started |-> 0, phase |-> "idle"],
     test |-> [call_count |-> 0, started |-> 0, result |-> NoResponse],
     first |-> NoResponse, first_result |-> NoResponse]

\* a run of a driver script: phase is the position in the script, started is
\* session_started (start_single_player_test.py) or "'browser_session' in
\* locals()" (the other scripts), exc the exception in flight, ret the
\* value the run function returned, files the screenshot files written,
\* count the player count drawn, ui the UI steps carried out so far
RunIdle ==
    [phase |-> "idle", driver |-> "start", started |-> FALSE,
     browser |-> "none", step |-> 0, left |-> 0, wait_end |-> "none",
     exc |-> "none", raised |-> "none", ret |-> "none", marker |-> "unknown",
     page |-> FALSE, files |-> {}, shots |-> 0, stops |-> 0, exit_code |-> -1,
     count |-> 0, ui |-> <<>>]

\* ------------------------------------------------------------------------
\* validate_and_retry_llm_response
\* ------------------------------------------------------------------------

\* the first corrective message without the "Error: {err}" part
CorrectiveMessages_NoError(e) ==
    << [role |-> "user",
        content |-> [instr |-> "Reply with ONLY JSON: ",
                     example |-> GotoTemplate(APP_URL),
                     error |-> None]] >>

\* lines 414-417: the first corrective message
CorrectiveMessages(e) ==
    << [role |-> "user",
        content |-> [instr |-> "Reply with ONLY JSON: ",
                     example |-> GotoTemplate(APP_URL),
                     error |-> e]] >>

\* lines 437-440: the final, minimal message
FinalMessages ==
    << [role |-> "user",
        content |-> [instr |-> "Respond exactly: ",
                     example |-> GotoTemplate(APP_URL),
                     error |-> None]] >>

\* client_wrapper.client.chat.completions.create(model=, messages=, temperature=)
CreateCall(model, msgs, temperature) ==
    [model |-> model, messages |-> msgs, temperature |-> temperature]

\* the first retry appended to the caller's conversation and sent with it
RetryRequest_WithHistory(e) ==
    CreateCall(wrapper_model, messages \o CorrectiveMessages(e), RetryTemperature)

\* lines 420-424: the request of the first retry
RetryRequest(e) == CreateCall(wrapper_model, CorrectiveMessages(e), RetryTemperature)

\* lines 443-447: the request of the final retry
FinalRequest == CreateCall(wrapper_model, FinalMessages, RetryTemperature)

TextResponse(t) == [kind |-> "text", text |-> t]

Raised == [kind |-> "raise", text |-> <<>>]

Init ==
    /\ pc = "start"
    /\ session = SessionIdle
    /\ run = RunIdle
    /\ raw_content \in Texts
    /\ messages \in Conversations
    /\ messages0 = messages
    /\ wrapper_model \in Models
    /\ obj = None
    /\ err = None
    /\ calls = <<>>
    /\ responses = <<>>
    /\ parse_attempts = 0
    /\ outcome = NoOutcome
    /\ lab = LabIdle
    /\ adapter = AdapterIdle

\* the first retry call issued before the result of the parse is looked at
Validate_AlwaysProbes ==
    /\ pc = "start"
    /\ parse_attempts' = parse_attempts + 1
    /\ LET r == parse_action(raw_content)
       IN  IF r.exc # None
           THEN /\ pc' = "raised"
                /\ outcome' = Propagate(r.exc)
                /\ UNCHANGED <<obj, err, calls>>
           ELSE /\ obj' = r.obj
                /\ err' = r.err
                /\ calls' = Append(calls, RetryRequest(r.err))
                /\ IF r.err # None
                   THEN /\ pc' = "await_retry"
                        /\ outcome' = outcome
                   ELSE /\ pc' = "returned"
                        /\ outcome' = Return(raw_content, r.obj)
    /\ UNCHANGED <<raw_content, messages, wrapper_model, responses, messages0, lab, adapter, session, run>>

\* a coordinator that issues the first and the final retry call together
Validate_BothAtOnce ==
    /\ pc = "start"
    /\ parse_attempts' = parse_attempts + 1
    /\ LET r == parse_action(raw_content)
       IN  IF r.exc # None
           THEN /\ pc' = "raised"
                /\ outcome' = Propagate(r.exc)
                /\ UNCHANGED <<obj, err, calls>>
           ELSE /\ obj' = r.obj
                /\ err' = r.err
                /\ IF r.err # None
                   THEN /\ calls' = calls \o <<RetryRequest(r.err), FinalRequest>>
                        /\ pc' = "await_retry"
                        /\ outcome' = outcome
                   ELSE /\ calls' = calls
                        /\ pc' = "returned"
                        /\ outcome' = Return(raw_content, r.obj)
    /\ UNCHANGED <<raw_content, messages, wrapper_model, responses, messages0, lab, adapter, session, run>>

\* lines 408-424 and 460-461: parse the initial text; return it when it
\* parses, otherwise issue the first retry call
Validate ==
    /\ pc = "start"
    /\ parse_attempts' = parse_attempts + 1
    /\ LET r == parse_action(raw_content)
       IN  IF r.exc # None
           THEN /\ pc' = "raised"
                /\ outcome' = Propagate(r.exc)
                /\ UNCHANGED <<obj, err, calls>>
           ELSE /\ obj' = r.obj
                /\ err' = r.err
                /\ IF r.err # None
                   THEN /\ calls' = Append(calls, RetryRequest(r.err))
                        /\ pc' = "await_retry"
                        /\ outcome' = outcome
                   ELSE /\ calls' = calls
                        /\ pc' = "returned"
                        /\ outcome' = Return(raw_content, r.obj)
    /\ UNCHANGED <<raw_content, messages, wrapper_model, responses, messages0, lab, adapter, session, run>>

\* a coordinator that gives up after the first retry
RetryResponds_GivesUp(t) ==
    /\ pc = "await_retry"
    /\ responses' = Append(responses, TextResponse(t))
    /\ parse_attempts' = parse_attempts + 1
    /\ calls' = calls
    /\ LET r == parse_action(t)
       IN  IF r.exc # None
           THEN /\ pc' = "raised"
                /\ outcome' = RaiseValueError(err, raw_content)
                /\ UNCHANGED <<obj, err>>
           ELSE /\ obj' = r.obj
                /\ err' = r.err
                /\ IF r.err = None
                   THEN /\ pc' = "returned"
                        /\ outcome' = Return(t, r.obj)
                   ELSE /\ pc' = "raised"
                        /\ outcome' = RaiseValueError(r.err, raw_content)
    /\ UNCHANGED <<raw_content, messages, wrapper_model, messages0, lab, adapter, session, run>>

\* a coordinator that issues the final retry whatever the first retry gave
RetryResponds_IgnoresSuccess(t) ==
    /\ pc = "await_retry"
    /\ responses' = Append(responses, TextResponse(t))
    /\ parse_attempts' = parse_attempts + 1
    /\ calls' = Append(calls, FinalRequest)
    /\ pc' = "await_final"
    /\ outcome' = outcome
    /\ LET r == parse_action(t)
       IN  IF r.exc # None
           THEN UNCHANGED <<obj, err>>
           ELSE /\ obj' = r.obj
                /\ err' = r.err
    /\ UNCHANGED <<raw_content, messages, wrapper_model, messages0, lab, adapter, session, run>>

\* a coordinator that returns the text it was called with next to the
\* object of the retry
RetryResponds_ReturnsRaw(t) ==
    /\ pc = "await_retry"
    /\ responses' = Append(responses, TextResponse(t))
    /\ parse_attempts' = parse_attempts + 1
    /\ LET r == parse_action(t)
       IN  IF r.exc # None
           THEN \* caught at line 432: obj and err keep their values
                /\ calls' = Append(calls, FinalRequest)
                /\ pc' = "await_final"
                /\ UNCHANGED <<obj, err, outcome>>
           ELSE /\ obj' = r.obj
                /\ err' = r.err
                /\ IF r.err = None
                   THEN /\ calls' = calls
                        /\ pc' = "returned"
                        /\ outcome' = Return(raw_content, r.obj)
                   ELSE /\ calls' = Append(calls, FinalRequest)
                        /\ pc' = "await_final"
                        /\ outcome' = outcome
    /\ UNCHANGED <<raw_content, messages, wrapper_model, messages0, lab, adapter, session, run>>

\* lines 425-431, then 435-447: the first retry call returns text t
RetryResponds(t) ==
    /\ pc = "await_retry"
    /\ responses' = Append(responses, TextResponse(t))
    /\ parse_attempts' = parse_attempts + 1
    /\ LET r == parse_action(t)
       IN  IF r.exc # None
           THEN \* caught at line 432: obj and err keep their values
                /\ calls' = Append(calls, FinalRequest)
                /\ pc' = "await_final"
                /\ UNCHANGED <<obj, err, outcome>>
           ELSE /\ obj' = r.obj
                /\ err' = r.err
                /\ IF r.err = None
                   THEN /\ calls' = calls
                        /\ pc' = "returned"
                        /\ outcome' = Return(t, r.obj)
                   ELSE /\ calls' = Append(calls, FinalRequest)
                        /\ pc' = "await_final"
                        /\ outcome' = outcome
    /\ UNCHANGED <<raw_content, messages, wrapper_model, messages0, lab, adapter, session, run>>

\* a first retry whose exception is not caught
RetryRaises_Propagates ==
    /\ pc = "await_retry"
    /\ responses' = Append(responses, Raised)
    /\ pc' = "raised"
    /\ outcome' = [kind |-> "Exception", text |-> <<>>, obj |-> None, err |-> None]
    /\ UNCHANGED <<raw_content, messages, wrapper_model, obj, err, calls,
                   parse_attempts, messages0, lab, adapter, session, run>>

\* lines 432-433, then 435-447: the first retry call raises; the exception
\* is logged and the final retry call is issued
RetryRaises ==
    /\ pc = "await_retry"
    /\ responses' = Append(responses, Raised)
    /\ calls' = Append(calls, FinalRequest)
    /\ pc' = "await_final"
    /\ UNCHANGED <<raw_content, messages, wrapper_model, obj, err, parse_attempts,
                   outcome, messages0, lab, adapter, session, run>>

\* a final retry that returns the initial text with the parsed object
FinalResponds_ReturnsRaw(t) ==
    /\ pc = "await_final"
    /\ responses' = Append(responses, TextResponse(t))
    /\ parse_attempts' = parse_attempts + 1
    /\ LET r == parse_action(t)
       IN  IF r.exc # None
           THEN /\ pc' = "raised"
                /\ outcome' = RaiseValueError(err, raw_content)
                /\ UNCHANGED <<obj, err>>
           ELSE /\ obj' = r.obj
                /\ err' = r.err
                /\ IF r.err = None
                   THEN /\ pc' = "returned"
                        /\ outcome' = Return(raw_content, r.obj)
                   ELSE /\ pc' = "raised"
                        /\ outcome' = RaiseValueError(r.err, raw_content)
    /\ UNCHANGED <<raw_content, messages, wrapper_model, calls, messages0, lab, adapter, session, run>>

\* lines 448-454, then 458: the final retry call returns text t
FinalResponds(t) ==
    /\ pc = "await_final"
    /\ responses' = Append(responses, TextResponse(t))
    /\ parse_attempts' = parse_attempts + 1
    /\ LET r == parse_action(t)
       IN  IF r.exc # None
           THEN \* caught at line 455: err keeps the value of an earlier parse
                /\ pc' = "raised"
                /\ outcome' = RaiseValueError(err, raw_content)
                /\ UNCHANGED <<obj, err>>
           ELSE /\ obj' = r.obj
                /\ err' = r.err
                /\ IF r.err = None
                   THEN /\ pc' = "returned"
                        /\ outcome' = Return(t, r.obj)
                   ELSE /\ pc' = "raised"
                        /\ outcome' = RaiseValueError(r.err, raw_content)
    /\ UNCHANGED <<raw_content, messages, wrapper_model, calls, messages0, lab, adapter, session, run>>

\* lines 455-458: the final retry call raises; the exception is logged and
\* the terminal ValueError is raised with the err of the last parse
FinalRaises ==
    /\ pc = "await_final"
    /\ responses' = Append(responses, Raised)
    /\ pc' = "raised"
    /\ outcome' = RaiseValueError(err, raw_content)
    /\ UNCHANGED <<raw_content, messages, wrapper_model, obj, err, calls,
                   parse_attempts, messages0, lab, adapter, session, run>>

Next ==
    \/ Validate
    \/ \E t \in Texts : RetryResponds(t)
    \/ RetryRaises
    \/ \E t \in Texts : FinalResponds(t)
    \/ FinalRaises

Spec == Init /\ [][Next]_vars


\* ------------------------------------------------------------------------
\* parse_action on bounded inputs: a text is lead \o pre \o body \o post \o
\* trail, with lead and trail the ways a fence opens and closes, pre and
\* post bounded runs of prose, and body a JSON object or a malformed one
\* ------------------------------------------------------------------------

\* {"action": "goto",\n"params": {}}
TwoLineObject == <<"{", "kAction", "SP", "sGoto", ",", "NL", "kParams", "SP", "{", "}", "}">>

\* {"action": "", "params": null}
EmptyActionObject == <<"{", "kAction", "SP", "sEmpty", ",", "SP", "kParams", "SP", "null", "}">>

\* {"action": "goto", "action": "click", "params": {}}
DuplicateKeyObject ==
    <<"{", "kAction", "sGoto", ",", "kAction", "sClick", ",", "kParams", "{", "}", "}">>

\* the well-formed {"action": A, "params": P} objects
ActionObjects ==
    { GotoTemplate(APP_URL), ClickObject, TwoLineObject, EmptyActionObject,
      DuplicateKeyObject }

Bodies ==
    ActionObjects \cup
    { <<>>, <<"{", "}">>, BadJsonText, NoActionText, NoParamsText, DeepParamsText }

ProseTokens == {"word", "NL", "{", "}"}

\* the runs of at most n prose tokens
RECURSIVE ProseUpTo(_)
ProseUpTo(n) ==
    IF n = 0 THEN { <<>> }
    ELSE LET shorter == ProseUpTo(n - 1)
         IN  shorter \cup { Append(p, t) : p \in shorter, t \in ProseTokens }

Leads ==
    { <<>>, <<"SP">>, <<"FENCE">>, <<"FENCE", "JSONTAG">>, <<"FENCE", "NL">>,
      <<"FENCE", "JSONTAG", "NL">>, <<"word", "NL", "FENCE", "JSONTAG", "NL">> }

Trails == { <<>>, <<"NL">>, <<"FENCE">>, <<"NL", "FENCE">> }

\* the raw text of the laboratory's input
LabRaw == lab.lead \o lab.pre \o lab.body \o lab.post \o lab.trail

\* what stands before and after the body in the raw text
LabBefore == lab.lead \o lab.pre

LabAfter == lab.post \o lab.trail

FenceStyles == {"own_lines", "own_lines_json", "same_line", "same_line_json", "close_same_line"}

OwnLineStyles == {"own_lines", "own_lines_json"}

\* content C wrapped in a triple-backtick fence
Fenced(style, c) ==
    CASE style = "own_lines"       -> <<"FENCE", "NL">> \o c \o <<"NL", "FENCE">>
      [] style = "own_lines_json"  -> <<"FENCE", "JSONTAG", "NL">> \o c \o <<"NL", "FENCE">>
      [] style = "same_line"       -> <<"FENCE">> \o c \o <<"FENCE">>
      [] style = "same_line_json"  -> <<"FENCE", "JSONTAG", "SP">> \o c \o <<"SP", "FENCE">>
      [] style = "close_same_line" -> <<"FENCE", "JSONTAG", "NL">> \o c \o <<"FENCE">>

\* the trimmed text opens and closes with a triple backtick (lines 378, 381)
FenceShaped(text) ==
    /\ StartsWith(Strip(text), <<"FENCE">>)
    /\ EndsWith(Strip(text), <<"FENCE">>)

ParseInit ==
    /\ pc = "lab"
    /\ session = SessionIdle
    /\ run = RunIdle
    /\ raw_content = <<>>
    /\ messages = <<>>
    /\ messages0 = <<>>
    /\ wrapper_model = MODEL
    /\ obj = None
    /\ err = None
    /\ calls = <<>>
    /\ responses = <<>>
    /\ parse_attempts = 0
    /\ outcome = NoOutcome
    /\ adapter = AdapterIdle
    /\ \E lead \in Leads, trail \in Trails, body \in Bodies,
          pre \in ProseUpTo(MaxPre), post \in ProseUpTo(MaxPost) :
            lab = [LabIdle EXCEPT !.phase = "input", !.lead = lead, !.pre = pre,
                                  !.body = body, !.post = post, !.trail = trail]

\* parse_action(raw_text)
Parse ==
    /\ lab.phase = "input"
    /\ lab' = [lab EXCEPT !.phase = "parsed", !.res = parse_action(LabRaw)]
    /\ UNCHANGED <<pc, raw_content, messages, wrapper_model, obj, err, calls,
                   responses, parse_attempts, outcome, messages0, adapter, session, run>>

\* parse_action of the same text inside a fence
ParseFenced(style) ==
    /\ lab.phase = "parsed"
    /\ lab' = [lab EXCEPT !.phase = "fenced", !.style = style,
                          !.fres = parse_action(Fenced(style, LabRaw))]
    /\ UNCHANGED <<pc, raw_content, messages, wrapper_model, obj, err, calls,
                   responses, parse_attempts, outcome, messages0, adapter, session, run>>

ParseNext ==
    \/ Parse
    \/ \E style \in FenceStyles : ParseFenced(style)

ParseSpec == ParseInit /\ [][ParseNext]_vars

\* ------------------------------------------------------------------------
\* Response Normalizer and Compatibility Adapter: OpenAIResponseInterceptor,
\* OpenAICompatWrapper and CompletionsInterceptor, in the variant of
\* ai_smoke_test.py ("main") and of ai_smoke_test_clean.py ("clean")
\* ------------------------------------------------------------------------

\* most choices in one response of the model endpoint
MaxChoices == 2

Variants == {"main", "clean"}

\* how the host calls the wrapper it was handed: wrapper.ainvoke(messages),
\* wrapper.ainvoke(messages=messages), wrapper.chat.completions.create(messages=messages)
Conventions == {"ainvoke_args", "ainvoke_kwargs", "create"}

\* {"action": "click", "params": {"text": "Start Single Player"}}
FallbackAction ==
    [k \in {"kAction", "kParams"} |->
        IF k = "kAction" THEN <<"sClick">>
        ELSE <<"{", "kText", "sStartSinglePlayer", "}">>]

\* a choice as the endpoint returns it: choice.message.content, and no
\* attribute action yet
Choice(content) == [content |-> content, action |-> None]

\* the try block of _transform_choices with find('}') in place of rfind('}')
ExtractAction_FirstClose(content) ==
    LET json_content == Defence(content)
        start == Find(json_content, "{")
        end == Find(json_content, "}")
    IN  IF start # -1 /\ end # -1 /\ end > start
        THEN LET json_str == Slice(json_content, start, end)
             IN  IF ~JsonScan(json_str).ok THEN None
                 ELSE IF "kAction" \in DOMAIN JsonLoads(json_str)
                 THEN <<JsonLoads(json_str)>>
                 ELSE None
        ELSE None

\* the try block of _transform_choices: the object it assigns to
\* choice.action, or None when it leaves the block without assigning one
\* (no brace pair, no "action" key, or json.loads raised: every exception
\* is caught by "except Exception")
ExtractAction(content) ==
    LET json_content == Defence(content)
        start == Find(json_content, "{")
        end == RFind(json_content, "}")
    IN  IF start # -1 /\ end # -1 /\ end > start
        THEN LET json_str == Slice(json_content, start, end)
             IN  IF ~JsonScan(json_str).ok THEN None
                 ELSE IF "kAction" \in DOMAIN JsonLoads(json_str)
                 THEN <<JsonLoads(json_str)>>
                 ELSE None
        ELSE None

\* one turn of the loop of _transform_choices in ai_smoke_test.py: a
\* choice that yields no object is left as it is
TransformChoiceMain(choice) ==
    IF choice.content = <<>>
    THEN \* "if content and isinstance(content, str)" is false
         choice
    ELSE LET parsed == ExtractAction(choice.content)
         IN  IF parsed # None THEN [choice EXCEPT !.action = parsed]
             ELSE choice

\* one turn of the loop of _transform_choices in ai_smoke_test_clean.py: a
\* choice that yields no object gets default_action / fallback_action
TransformChoiceClean(choice) ==
    IF choice.content = <<>>
    THEN \* "if content and isinstance(content, str)" is false
         choice
    ELSE LET parsed == ExtractAction(choice.content)
         IN  IF parsed # None THEN [choice EXCEPT !.action = parsed]
             ELSE [choice EXCEPT !.action = <<FallbackAction>>]

TransformChoice(variant, choice) ==
    IF variant = "clean" THEN TransformChoiceClean(choice)
    ELSE TransformChoiceMain(choice)

\* _transform_choices
TransformChoices(variant, choices) ==
    [i \in 1..Len(choices) |-> TransformChoice(variant, choices[i])]

\* a CompletionUsage object with the attributes it has
UsageObject(attrs) == [kind |-> "CompletionUsage"] @@ attrs

\* the usage dictionary with its six keys
UsageDict(prompt, completion, total) ==
    [kind |-> "dict", prompt_tokens |-> prompt, completion_tokens |-> completion,
     total_tokens |-> total, prompt_cached_tokens |-> 0,
     prompt_cache_creation_tokens |-> 0, prompt_image_tokens |-> 0]

\* getattr(usage, name, 0): a dict has keys, not attributes
GetAttr(usage, name) ==
    IF usage.kind = "CompletionUsage" /\ name \in DOMAIN usage THEN usage[name] ELSE 0

\* lines 249-261 of ai_smoke_test_clean.py
FixUsage(usage) ==
    IF usage.kind # "None"
    THEN UsageDict(GetAttr(usage, "prompt_tokens"), GetAttr(usage, "completion_tokens"),
                   GetAttr(usage, "total_tokens"))
    ELSE usage

\* OpenAIResponseInterceptor.__init__ of ai_smoke_test_clean.py: the
\* completion attribute
Completion(response) ==
    IF response.choices # <<>> THEN <<response.choices[1].content>> ELSE << <<>> >>

\* create of ai_smoke_test.py on the response of the endpoint:
\* OpenAIResponseInterceptor(response), which copies the attributes
NormalizeMain(response) ==
    [kind |-> "response",
     choices |-> TransformChoices("main", response.choices),
     usage |-> response.usage,
     completion |-> response.completion,
     action |-> response.action]

\* create of ai_smoke_test_clean.py on the response of the endpoint:
\* OpenAIResponseInterceptor(response), then the usage rewriting
NormalizeClean(response) ==
    [kind |-> "response",
     choices |-> TransformChoices("clean", response.choices),
     usage |-> FixUsage(response.usage),
     completion |-> Completion(response),
     action |-> response.action]

Normalize(variant, response) ==
    IF variant = "clean" THEN NormalizeClean(response) ELSE NormalizeMain(response)

\* contents a choice of the endpoint comes with
NormContents ==
    { <<>>, NoJsonText, BadJsonText, NoActionText, NoParamsText, DeepParamsText,
      GotoTemplate(APP_URL), FencedObject }

ChoiceLists ==
    UNION { [1..n -> {Choice(c) : c \in NormContents}] : n \in 0..MaxChoices }

\* response.usage of the endpoint: absent, complete, or short of attributes
Usages ==
    { NoUsage,
      UsageObject([prompt_tokens |-> 11, completion_tokens |-> 7, total_tokens |-> 18]),
      UsageObject([prompt_tokens |-> 11]) }

\* responses of the model endpoint
UpstreamResponses ==
    { [kind |-> "response", choices |-> cs, usage |-> u, completion |-> None,
       action |-> None] :
        cs \in ChoiceLists, u \in Usages }

\* an exception that reaches the host
HostException(name) == [NoResponse EXCEPT !.kind = name]

\* original_content + "\n\nIMPORTANT: You MUST respond with ONLY ..."
JsonEnforced(content) ==
    [instr |-> content.instr, example |-> content.example, error |-> content.error,
     enforced |-> (IF "enforced" \in DOMAIN content THEN content.enforced ELSE 0) + 1]

\* lines 172-192 of ai_smoke_test_clean.py: the system messages of the
\* caller's list are rewritten in place and the list is sent on
ModifiedMessages(msgs) ==
    [i \in 1..Len(msgs) |->
        IF msgs[i].role = "system"
        THEN [msgs[i] EXCEPT !.content = JsonEnforced(@)]
        ELSE msgs[i]]

AdapterInit ==
    /\ pc = "adapter"
    /\ session = SessionIdle
    /\ run = RunIdle
    /\ raw_content = <<>>
    /\ messages = <<>>
    /\ messages0 = <<>>
    /\ wrapper_model = MODEL
    /\ obj = None
    /\ err = None
    /\ calls = <<>>
    /\ responses = <<>>
    /\ parse_attempts = 0
    /\ outcome = NoOutcome
    /\ lab = LabIdle
    /\ \E variant \in Variants, convention \in Conventions,
          msgs \in Conversations, model \in Models :
            adapter = [AdapterIdle EXCEPT !.phase = "host", !.variant = variant,
                                          !.convention = convention,
                                          !.messages = msgs, !.handed = msgs,
                                          !.model = model]

\* create up to its call of the endpoint with kwargs: the call is counted
\* and the request goes out
CreateCalled(kwargs) ==
    [adapter EXCEPT !.phase = "await",
                    !.call_count = @ + 1,
                    !.messages = kwargs.messages,
                    !.calls = Append(@, kwargs)]

\* ai_smoke_test.py: the host calls wrapper.ainvoke.  OpenAICompatWrapper
\* defines no ainvoke (the method of that name belongs to
\* CompletionsInterceptor), so the attribute lookup fails
HostAinvokeMain ==
    /\ adapter.phase = "host"
    /\ adapter.variant = "main"
    /\ adapter.convention \in {"ainvoke_args", "ainvoke_kwargs"}
    /\ adapter' = [adapter EXCEPT !.phase = "done",
                                  !.result = HostException("AttributeError")]
    /\ UNCHANGED <<pc, raw_content, messages, wrapper_model, obj, err, calls,
                   responses, parse_attempts, outcome, messages0, lab, session, run>>

\* ai_smoke_test.py: the host calls wrapper.chat.completions.create, which
\* hands its arguments on as they are
HostCreateMain ==
    /\ adapter.phase = "host"
    /\ adapter.variant = "main"
    /\ adapter.convention = "create"
    /\ adapter' = CreateCalled([messages |-> adapter.messages])
    /\ UNCHANGED <<pc, raw_content, messages, wrapper_model, obj, err, calls,
                   responses, parse_attempts, outcome, messages0, lab, session, run>>

\* ai_smoke_test_clean.py: the host calls wrapper.ainvoke, which hands the
\* messages, positional or keyword, to create
HostAinvokeClean ==
    /\ adapter.phase = "host"
    /\ adapter.variant = "clean"
    /\ adapter.convention \in {"ainvoke_args", "ainvoke_kwargs"}
    /\ adapter' = CreateCalled([messages |-> ModifiedMessages(adapter.messages),
                                model |-> adapter.model])
    /\ UNCHANGED <<pc, raw_content, messages, wrapper_model, obj, err, calls,
                   responses, parse_attempts, outcome, messages0, lab, session, run>>

\* ai_smoke_test_clean.py: the host calls wrapper.chat.completions.create,
\* which rewrites the system messages and adds the model
HostCreateClean ==
    /\ adapter.phase = "host"
    /\ adapter.variant = "clean"
    /\ adapter.convention = "create"
    /\ adapter' = CreateCalled([messages |-> ModifiedMessages(adapter.messages),
                                model |-> adapter.model])
    /\ UNCHANGED <<pc, raw_content, messages, wrapper_model, obj, err, calls,
                   responses, parse_attempts, outcome, messages0, lab, session, run>>

\* the endpoint returns: create decorates the response and returns it
EndpointResponds(response) ==
    /\ adapter.phase = "await"
    /\ adapter' = [adapter EXCEPT !.phase = "done",
                                  !.upstream = response,
                                  !.result = Normalize(adapter.variant, response)]
    /\ UNCHANGED <<pc, raw_content, messages, wrapper_model, obj, err, calls,
                   responses, parse_attempts, outcome, messages0, lab, session, run>>

\* a create that answers a raising endpoint call with a second call
EndpointRaises_Retries ==
    /\ adapter.phase = "await"
    /\ adapter' = IF Len(adapter.calls) < 2
                  THEN [adapter EXCEPT !.calls = Append(@, @[Len(@)])]
                  ELSE [adapter EXCEPT !.phase = "done",
                                       !.result = HostException("Exception")]
    /\ UNCHANGED <<pc, raw_content, messages, wrapper_model, obj, err, calls,
                   responses, parse_attempts, outcome, messages0, lab, session, run>>

\* the endpoint call raises: "except Exception ... raise"
EndpointRaises ==
    /\ adapter.phase = "await"
    /\ adapter' = [adapter EXCEPT !.phase = "done",
                                  !.result = HostException("Exception")]
    /\ UNCHANGED <<pc, raw_content, messages, wrapper_model, obj, err, calls,
                   responses, parse_attempts, outcome, messages0, lab, session, run>>

\* the normalizer applied to the response it returned
NormalizeAgain ==
    /\ adapter.phase = "done"
    /\ adapter.result.kind = "response"
    /\ adapter' = [adapter EXCEPT !.phase = "renormalized",
                                  !.prior = adapter.result,
                                  !.result = Normalize(adapter.variant, adapter.result)]
    /\ UNCHANGED <<pc, raw_content, messages, wrapper_model, obj, err, calls,
                   responses, parse_attempts, outcome, messages0, lab, session, run>>

AdapterNext ==
    \/ HostAinvokeMain
    \/ HostCreateMain
    \/ HostAinvokeClean
    \/ HostCreateClean
    \/ \E response \in UpstreamResponses : EndpointResponds(response)
    \/ EndpointRaises
    \/ NormalizeAgain

AdapterSpec == AdapterInit /\ [][AdapterNext]_vars

\* ------------------------------------------------------------------------
\* One host call into a wrapper, by every way the host can make it, for the
\* wrappers of ai_smoke_test.py ("main"), ai_smoke_test_clean.py ("clean")
\* and ai_smoke_test_fixed.py ("fixed")
\* ------------------------------------------------------------------------

\* the ways, beside those of Conventions:
\*   completions_ainvoke_args    wrapper.chat.completions.ainvoke(messages)
\*   completions_ainvoke_kwargs  wrapper.chat.completions.ainvoke(messages=messages)
\*   unbound_ainvoke_args        CompletionsInterceptor.ainvoke(wrapper, messages)
\*   unbound_ainvoke_kwargs      CompletionsInterceptor.ainvoke(wrapper, messages=messages)
\* The last two run the ainvoke of ai_smoke_test.py with the one object as
\* self that has the attributes the method reads (call_count, client, model).
InvokeWays ==
    ({"main", "clean", "fixed"}
        \X (Conventions \cup {"completions_ainvoke_args", "completions_ainvoke_kwargs"}))
    \cup ({"main"} \X {"unbound_ainvoke_args", "unbound_ainvoke_kwargs"})

\* responses of the endpoint with at most one choice
InvokeResponses == {r \in UpstreamResponses : Len(r.choices) <= 1}

\* temperature=0.7 of FixedOpenAIWrapper.ainvoke
FixedTemperature == "0.7"

\* {"action": "error", "params": {}}
ErrorAction ==
    [k \in {"kAction", "kParams"} |->
        IF k = "kAction" THEN <<"sError">> ELSE <<"{", "}">>]

\* the value json.loads returns for a text it accepts: the dict of an
\* object, or the scalar
Decoded(text) ==
    LET i == SkipWs(text, 1)
    IN  IF text[i] = "{" THEN JsonLoads(text)
        ELSE [k \in {"scalar"} |-> <<text[i]>>]

\* lines 276-307 of ai_smoke_test.py: content with a fence taken off, when
\* what is left decodes as JSON; otherwise content as it came
CleanedContent(content) ==
    LET stripped == Strip(content)
        lines == SplitLines(stripped)
        json_content ==
            IF StartsWith(stripped, <<"FENCE", "JSONTAG">>)
            THEN IF /\ Strip(lines[1]) = <<"FENCE", "JSONTAG">>
                    /\ Strip(lines[Len(lines)]) = <<"FENCE">>
                 THEN JoinLines(Interior(lines))
                 ELSE content
            ELSE IF StartsWith(stripped, <<"FENCE">>) /\ EndsWith(stripped, <<"FENCE">>)
            THEN JoinLines(Interior(lines))
            ELSE content
    IN  IF JsonScan(json_content).ok THEN json_content ELSE content

\* lines 310-330 of ai_smoke_test.py: the usage dictionary, zeros by default
AinvokeUsage(usage) ==
    IF usage.kind # "None"
    THEN UsageDict(GetAttr(usage, "prompt_tokens"), GetAttr(usage, "completion_tokens"),
                   GetAttr(usage, "total_tokens"))
    ELSE UsageDict(0, 0, 0)

\* lines 341-347 of ai_smoke_test.py: json.loads(validated_content), and
\* the error action when it raises anything
ParsedAction(validated_content) ==
    IF JsonScan(validated_content).ok THEN Decoded(validated_content)
    ELSE ErrorAction

\* lines 350-358 of ai_smoke_test.py: LLMResponse(content, usage, action)
LLMResponse(content, usage, action) ==
    [kind |-> "response", choices |-> <<>>, usage |-> usage,
     completion |-> <<content>>, action |-> <<action>>]

\* lines 58-74 of ai_smoke_test_fixed.py: the action FixedOpenAIWrapper
\* takes out of a content
FixedAction(content) ==
    IF (\E i \in 1..Len(content) : content[i] = "{")
       /\ (\E i \in 1..Len(content) : content[i] = "}")
    THEN LET start == Find(content, "{")
             end == RFind(content, "}") + 1
             json_str == SubSeq(content, start + 1, end)
         IN  IF JsonScan(json_str).ok THEN JsonLoads(json_str)
             ELSE FallbackAction
    ELSE FallbackAction

\* lines 76-86 of ai_smoke_test_fixed.py: ActionString(content, action)
ActionString(content, action) ==
    [kind |-> "response", choices |-> <<>>, usage |-> NoUsage,
     completion |-> <<content>>, action |-> <<action>>]

\* msg["content"] + "\n\nIMPORTANT: You must respond with valid JSON ..."
FixedEnforced(content) ==
    [instr |-> content.instr, example |-> content.example, error |-> content.error,
     format_hint |-> 1]

\* lines 39-46 of ai_smoke_test_fixed.py: a new list, with a new message
\* in the place of every system message
FixedModifiedMessages(msgs) ==
    [i \in 1..Len(msgs) |->
        IF msgs[i].role = "system"
        THEN [role |-> "system", content |-> FixedEnforced(msgs[i].content)]
        ELSE msgs[i]]

InvokeInit ==
    /\ pc = "adapter"
    /\ session = SessionIdle
    /\ run = RunIdle
    /\ raw_content = <<>>
    /\ messages = <<>>
    /\ messages0 = <<>>
    /\ wrapper_model = MODEL
    /\ obj = None
    /\ err = None
    /\ calls = <<>>
    /\ responses = <<>>
    /\ parse_attempts = 0
    /\ outcome = NoOutcome
    /\ lab = LabIdle
    /\ \E way \in InvokeWays, msgs \in Conversations, model \in Models :
            adapter = [AdapterIdle EXCEPT !.phase = "host", !.variant = way[1],
                                          !.convention = way[2],
                                          !.messages = msgs, !.handed = msgs,
                                          !.model = model]

\* ai_smoke_test.py: wrapper.chat.completions.ainvoke.  Line 206 reads
\* self.call_count, which a CompletionsInterceptor does not have
HostCompletionsAinvokeMain ==
    /\ adapter.phase = "host"
    /\ adapter.variant = "main"
    /\ adapter.convention \in {"completions_ainvoke_args", "completions_ainvoke_kwargs"}
    /\ adapter' = [adapter EXCEPT !.phase = "done",
                                  !.result = HostException("AttributeError")]
    /\ UNCHANGED <<pc, raw_content, messages, wrapper_model, obj, err, calls,
                   responses, parse_attempts, outcome, messages0, lab, session, run>>

\* ai_smoke_test_clean.py, lines 272-282: wrapper.chat.completions.ainvoke
\* hands the messages, keyword or positional list, to create
HostCompletionsAinvokeClean ==
    /\ adapter.phase = "host"
    /\ adapter.variant = "clean"
    /\ adapter.convention \in {"completions_ainvoke_args", "completions_ainvoke_kwargs"}
    /\ adapter' = CreateCalled([messages |-> ModifiedMessages(adapter.messages),
                                model |-> adapter.model])
    /\ UNCHANGED <<pc, raw_content, messages, wrapper_model, obj, err, calls,
                   responses, parse_attempts, outcome, messages0, lab, session, run>>

\* ai_smoke_test.py, lines 204-258: ainvoke run with the wrapper as self.
\* With one positional argument that argument is sent.  With no positional
\* argument messages becomes "" and then [{"role": "user", "content": ""}],
\* and the keyword messages is passed a second time through **kwargs: the
\* call of line 253 raises TypeError before it reaches the endpoint, and
\* line 372 re-raises it
HostUnboundAinvokeMain ==
    /\ adapter.phase = "host"
    /\ adapter.variant = "main"
    /\ adapter.convention \in {"unbound_ainvoke_args", "unbound_ainvoke_kwargs"}
    /\ IF adapter.convention = "unbound_ainvoke_args"
       THEN adapter' = [adapter EXCEPT
                            !.phase = "await_ainvoke",
                            !.call_count = @ + 1,
                            !.calls = Append(@, CreateCall(adapter.model, adapter.messages,
                                                           RetryTemperature))]
       ELSE adapter' = [adapter EXCEPT !.phase = "done",
                                       !.call_count = @ + 1,
                                       !.result = HostException("TypeError")]
    /\ UNCHANGED <<pc, raw_content, messages, wrapper_model, obj, err, calls,
                   responses, parse_attempts, outcome, messages0, lab, session, run>>

\* lines 259-339 of ai_smoke_test.py: the endpoint returns to ainvoke, which
\* takes the content of the first choice (IndexError without one), cleans
\* it and enters validate_and_retry_llm_response(content, self, messages, ...)
AinvokeResponds(response) ==
    /\ adapter.phase = "await_ainvoke"
    /\ IF response.choices = <<>>
       THEN /\ adapter' = [adapter EXCEPT !.phase = "done",
                                          !.upstream = response,
                                          !.result = HostException("IndexError")]
            /\ UNCHANGED <<pc, raw_content, messages, wrapper_model, messages0>>
       ELSE /\ adapter' = [adapter EXCEPT !.phase = "validating",
                                          !.upstream = response]
            /\ pc' = "start"
            /\ raw_content' = CleanedContent(response.choices[1].content)
            /\ messages' = adapter.messages
            /\ messages0' = adapter.messages
            /\ wrapper_model' = adapter.model
    /\ UNCHANGED <<obj, err, calls, responses, parse_attempts, outcome, lab,
                   session, run>>

\* lines 369-372 of ai_smoke_test.py: the endpoint call of ainvoke raises
AinvokeRaises ==
    /\ adapter.phase = "await_ainvoke"
    /\ adapter' = [adapter EXCEPT !.phase = "done",
                                  !.result = HostException("Exception")]
    /\ UNCHANGED <<pc, raw_content, messages, wrapper_model, obj, err, calls,
                   responses, parse_attempts, outcome, messages0, lab, session, run>>

\* lines 333-367 of ai_smoke_test.py: validate_and_retry_llm_response has
\* ended.  Its ValueError is caught and the content kept; any other
\* exception leaves ainvoke through line 372
AinvokeFinishes ==
    /\ adapter.phase = "validating"
    /\ pc \in {"returned", "raised"}
    /\ IF outcome.kind \in {"return", "ValueError"}
       THEN LET validated_content ==
                    IF outcome.kind = "return" THEN outcome.text ELSE raw_content
            IN  adapter' = [adapter EXCEPT
                                !.phase = "done",
                                !.result = LLMResponse(validated_content,
                                                       AinvokeUsage(adapter.upstream.usage),
                                                       ParsedAction(validated_content))]
       ELSE adapter' = [adapter EXCEPT !.phase = "done",
                                       !.result = HostException(outcome.kind)]
    /\ UNCHANGED <<pc, raw_content, messages, wrapper_model, obj, err, calls,
                   responses, parse_attempts, outcome, messages0, lab, session, run>>

\* ai_smoke_test_fixed.py, lines 33-53: wrapper.ainvoke(messages) or
\* wrapper.ainvoke(messages=messages)
HostAinvokeFixed ==
    /\ adapter.phase = "host"
    /\ adapter.variant = "fixed"
    /\ adapter.convention \in {"ainvoke_args", "ainvoke_kwargs"}
    /\ adapter' = [adapter EXCEPT
                        !.phase = "await_fixed",
                        !.calls = Append(@, CreateCall(adapter.model,
                                                       FixedModifiedMessages(adapter.messages),
                                                       FixedTemperature))]
    /\ UNCHANGED <<pc, raw_content, messages, wrapper_model, obj, err, calls,
                   responses, parse_attempts, outcome, messages0, lab, session, run>>

\* ai_smoke_test_fixed.py: FixedOpenAIWrapper has no attribute chat
HostChatFixed ==
    /\ adapter.phase = "host"
    /\ adapter.variant = "fixed"
    /\ adapter.convention \in {"create", "completions_ainvoke_args",
                               "completions_ainvoke_kwargs"}
    /\ adapter' = [adapter EXCEPT !.phase = "done",
                                  !.result = HostException("AttributeError")]
    /\ UNCHANGED <<pc, raw_content, messages, wrapper_model, obj, err, calls,
                   responses, parse_attempts, outcome, messages0, lab, session, run>>

\* ai_smoke_test_fixed.py, lines 55-89: the endpoint returns
FixedResponds(response) ==
    /\ adapter.phase = "await_fixed"
    /\ IF response.choices = <<>>
       THEN adapter' = [adapter EXCEPT !.phase = "done",
                                       !.upstream = response,
                                       !.result = HostException("IndexError")]
       ELSE adapter' = [adapter EXCEPT
                            !.phase = "done",
                            !.upstream = response,
                            !.result = ActionString(response.choices[1].content,
                                                    FixedAction(response.choices[1].content))]
    /\ UNCHANGED <<pc, raw_content, messages, wrapper_model, obj, err, calls,
                   responses, parse_attempts, outcome, messages0, lab, session, run>>

\* ai_smoke_test_fixed.py, lines 49-53: the endpoint call raises, and
\* nothing catches it
FixedRaises ==
    /\ adapter.phase = "await_fixed"
    /\ adapter' = [adapter EXCEPT !.phase = "done",
                                  !.result = HostException("Exception")]
    /\ UNCHANGED <<pc, raw_content, messages, wrapper_model, obj, err, calls,
                   responses, parse_attempts, outcome, messages0, lab, session, run>>

InvokeNext ==
    \/ HostAinvokeMain
    \/ HostCreateMain
    \/ HostAinvokeClean
    \/ HostCreateClean
    \/ HostCompletionsAinvokeMain
    \/ HostCompletionsAinvokeClean
    \/ HostUnboundAinvokeMain
    \/ HostAinvokeFixed
    \/ HostChatFixed
    \/ \E response \in InvokeResponses : EndpointResponds(response)
    \/ EndpointRaises
    \/ \E response \in InvokeResponses : AinvokeResponds(response)
    \/ AinvokeRaises
    \/ \E response \in InvokeResponses : FixedResponds(response)
    \/ FixedRaises
    \/ Validate
    \/ \E t \in Texts : RetryResponds(t)
    \/ RetryRaises
    \/ \E t \in Texts : FinalResponds(t)
    \/ FinalRaises
    \/ AinvokeFinishes

InvokeSpec == InvokeInit /\ [][InvokeNext]_vars

\* ------------------------------------------------------------------------
\* Several host calls in one process: the wrapper the Agent holds is called
\* again and again, next to a second wrapper of the same class and a
\* TestLLMWrapper of test_interface.py
\* ------------------------------------------------------------------------

MaxHostCalls == 2

\* what the endpoint can answer in a session
SessionResponses == {r \in InvokeResponses : r.usage = NoUsage}

\* the host call reached create, where the call is counted
Entered == adapter.variant = "clean" \/ adapter.convention = "create"

\* the content and the response TestLLMWrapper.ainvoke builds on every call
TestContent ==
    <<"{", "kAction", "SP", "sClick", ",", "SP", "kParams", "SP",
      "{", "kText", "SP", "sStartSinglePlayer", "}", "}">>

TestResponse ==
    [kind |-> "response", choices |-> <<>>,
     usage |-> [kind |-> "dict", prompt_tokens |-> 10,
                completion_tokens |-> 10, total_tokens |-> 20],
     completion |-> <<TestContent>>, action |-> <<FallbackAction>>]

SessionInit == AdapterInit

\* the Agent, having got the result of one call, makes its next call, with
\* a new message list or with the list object of the call before
HostCallsAgain(convention, msgs) ==
    /\ adapter.phase = "done"
    /\ session.completed + 1 < MaxHostCalls
    /\ adapter' = [adapter EXCEPT !.phase = "host",
                                  !.convention = convention,
                                  !.messages = msgs,
                                  !.handed = IF msgs = adapter.messages THEN @ ELSE msgs,
                                  !.calls = <<>>,
                                  !.upstream = NoResponse,
                                  !.result = NoResponse]
    /\ LET keep == session.first.kind = "none" /\ adapter.result.kind = "response"
       IN  session' = [session EXCEPT
                         !.completed = @ + 1,
                         !.entered = @ + (IF Entered THEN 1 ELSE 0),
                         !.first = IF keep THEN adapter.upstream ELSE @,
                         !.first_result = IF keep THEN adapter.result ELSE @]
    /\ UNCHANGED <<pc, raw_content, messages, wrapper_model, obj, err, calls,
                   responses, parse_attempts, outcome, messages0, lab, run>>

\* a create whose counter is an attribute of the class
PeerCreate_SharedCounter ==
    /\ session.peer.phase = "idle"
    /\ session.peer.started < MaxHostCalls
    /\ session' = [session EXCEPT !.peer.phase = "await",
                                  !.peer.started = @ + 1,
                                  !.peer.call_count = @ + 1]
    /\ adapter' = [adapter EXCEPT !.call_count = @ + 1]
    /\ UNCHANGED <<pc, raw_content, messages, wrapper_model, obj, err, calls,
                   responses, parse_attempts, outcome, messages0, lab, run>>

\* create of the second wrapper: "self._wrapper.call_count += 1" on its
\* own instance, then the endpoint call
PeerCreate ==
    /\ session.peer.phase = "idle"
    /\ session.peer.started < MaxHostCalls
    /\ session' = [session EXCEPT !.peer.phase = "await",
                                  !.peer.started = @ + 1,
                                  !.peer.call_count = @ + 1]
    /\ UNCHANGED <<pc, raw_content, messages, wrapper_model, obj, err, calls,
                   responses, parse_attempts, outcome, messages0, lab, adapter,
                   run>>

\* the endpoint call of the second wrapper returns or raises
PeerCompletes ==
    /\ session.peer.phase = "await"
    /\ session' = [session EXCEPT !.peer.phase = "idle"]
    /\ UNCHANGED <<pc, raw_content, messages, wrapper_model, obj, err, calls,
                   responses, parse_attempts, outcome, messages0, lab, adapter,
                   run>>

\* TestLLMWrapper.ainvoke: counts the call and returns its fixed response
TestAinvoke ==
    /\ session.test.started < MaxHostCalls
    /\ session' = [session EXCEPT !.test.started = @ + 1,
                                  !.test.call_count = @ + 1,
                                  !.test.result = TestResponse]
    /\ UNCHANGED <<pc, raw_content, messages, wrapper_model, obj, err, calls,
                   responses, parse_attempts, outcome, messages0, lab, adapter,
                   run>>

SessionNext ==
    \/ HostAinvokeMain
    \/ HostCreateMain
    \/ HostAinvokeClean
    \/ HostCreateClean
    \/ \E response \in SessionResponses : EndpointResponds(response)
    \/ EndpointRaises
    \/ \E convention \in Conventions, msgs \in Conversations \cup {adapter.messages} :
          HostCallsAgain(convention, msgs)
    \/ PeerCreate
    \/ PeerCompletes
    \/ TestAinvoke

SessionSpec == SessionInit /\ [][SessionNext]_vars

\* ------------------------------------------------------------------------
\* The driver scripts: run_test and main of start_single_player_test.py
\* ("start"), main of ai_smoke_test.py ("main") and of
\* ai_smoke_test_clean.py ("clean"), run_ai_smoke_test and main of
\* ai_smoke_test_fixed.py ("fixed")
\* ------------------------------------------------------------------------

\* the timeout of a wait, in clock ticks
WaitTicks == 2

Drivers == {"start", "main", "clean", "fixed"}

\* the waits of run_test in order: lines 51, 55, 62, 148 and 156
LastWait == 5

ArtifactDir == "artifacts"

RunInit ==
    /\ pc = "run"
    /\ session = SessionIdle
    /\ raw_content = <<>>
    /\ messages = <<>>
    /\ messages0 = <<>>
    /\ wrapper_model = MODEL
    /\ obj = None
    /\ err = None
    /\ calls = <<>>
    /\ responses = <<>>
    /\ parse_attempts = 0
    /\ outcome = NoOutcome
    /\ lab = LabIdle
    /\ adapter = AdapterIdle
    /\ \E driver \in Drivers :
          run = [RunIdle EXCEPT !.phase = "begin", !.driver = driver]

\* run_test lines 43-44: browser.start() returns and session_started is
\* set, or it raises
StartBrowser ==
    /\ run.driver = "start"
    /\ run.phase = "begin"
    /\ \/ run' = [run EXCEPT !.phase = "act", !.started = TRUE, !.browser = "open"]
       \/ run' = [run EXCEPT !.phase = "handler", !.exc = "Exception"]
    /\ UNCHANGED <<pc, raw_content, messages, wrapper_model, obj, err, calls,
                   responses, parse_attempts, outcome, messages0, lab, adapter,
                   session>>

\* a UI step of run_test: a navigation, a wait that succeeded or a click,
\* on the selector or path of the wait of that number (lines 51, 55, 62,
\* 148 and 156)
UiStep(op, step, count) ==
    [op |-> op,
     target |-> <<"start-button", "/single-player", "/single-player/new",
                  "player-count", "create-lineup">>[step],
     n |-> IF step = 4 THEN count ELSE 0]

\* a run_test that goes on to its next step without the wait before it
Proceed_NoWait ==
    /\ run.driver = "start"
    /\ run.phase = "act"
    /\ \/ /\ run.step = 0
          /\ run' = [run EXCEPT !.step = 1,
                                !.ui = Append(@, [op |-> "navigate", target |-> "app", n |-> 0])]
       \/ /\ run.step \in {1, 4}
          /\ run' = [run EXCEPT !.step = @ + 1,
                                !.ui = Append(@, UiStep("click", run.step, run.count))]
       \/ /\ run.step = 2
          /\ \E n \in 2..10 : run' = [run EXCEPT !.step = 4, !.count = n]
       \/ /\ run.step = 3
          /\ \E n \in 2..10 : run' = [run EXCEPT !.step = 4, !.count = n]
       \/ /\ run.step = LastWait
          /\ run' = [run EXCEPT !.phase = "shot", !.page = TRUE,
                                !.ui = Append(@, UiStep("click", run.step, run.count))]
       \/ run' = [run EXCEPT !.phase = "handler", !.exc = "Exception"]
    /\ UNCHANGED <<pc, raw_content, messages, wrapper_model, obj, err, calls,
                   responses, parse_attempts, outcome, messages0, lab, adapter,
                   session>>

\* run_test lines 47-72: the navigation or click before the next wait, then
\* the start of that wait with deadline = time.time() + timeout; after the
\* last wait and click the final URL is read.  The navigation and wait of
\* lines 61-62 are made only when the path reached is not yet
\* /single-player/new; the player count is drawn between 2 and 10 when
\* its wait starts (lines 146-148)
Proceed ==
    /\ run.driver = "start"
    /\ run.phase = "act"
    /\ \/ /\ run.step = 0
          /\ run' = [run EXCEPT !.phase = "wait", !.step = 1,
                                !.left = WaitTicks, !.wait_end = "none",
                                !.ui = Append(@, [op |-> "navigate", target |-> "app", n |-> 0])]
       \/ /\ run.step \in {1, 4}
          /\ run' = [run EXCEPT !.phase = "wait", !.step = @ + 1,
                                !.left = WaitTicks, !.wait_end = "none",
                                !.ui = Append(@, UiStep("click", run.step, run.count))]
       \/ /\ run.step = 2
          /\ \/ run' = [run EXCEPT !.phase = "wait", !.step = 3,
                                   !.left = WaitTicks, !.wait_end = "none",
                                   !.ui = Append(@, [op |-> "navigate",
                                                     target |-> "/single-player/new",
                                                     n |-> 0])]
             \/ \E n \in 2..10 :
                   run' = [run EXCEPT !.phase = "wait", !.step = 4, !.count = n,
                                      !.left = WaitTicks, !.wait_end = "none"]
       \/ /\ run.step = 3
          /\ \E n \in 2..10 :
                run' = [run EXCEPT !.phase = "wait", !.step = 4, !.count = n,
                                   !.left = WaitTicks, !.wait_end = "none"]
       \/ /\ run.step = LastWait
          /\ run' = [run EXCEPT !.phase = "shot", !.page = TRUE,
                                !.ui = Append(@, UiStep("click", run.step, run.count))]
       \/ run' = [run EXCEPT !.phase = "handler", !.exc = "Exception"]
    /\ UNCHANGED <<pc, raw_content, messages, wrapper_model, obj, err, calls,
                   responses, parse_attempts, outcome, messages0, lab, adapter,
                   session>>

\* a wait that polls whatever the clock says
PollStarts_NoDeadline ==
    /\ run.phase = "wait"
    /\ run' = [run EXCEPT !.phase = "poll"]
    /\ UNCHANGED <<pc, raw_content, messages, wrapper_model, obj, err, calls,
                   responses, parse_attempts, outcome, messages0, lab, adapter,
                   session>>

\* _wait_for_selector line 106, _wait_for_path line 163: the deadline has
\* not passed, so a poll is started
PollStarts ==
    /\ run.phase = "wait"
    /\ run.left > 0
    /\ run' = [run EXCEPT !.phase = "poll"]
    /\ UNCHANGED <<pc, raw_content, messages, wrapper_model, obj, err, calls,
                   responses, parse_attempts, outcome, messages0, lab, adapter,
                   session>>

\* lines 107-118 and 164-169: the poll returns with the condition met and
\* the wait returns, or with the condition not met and the wait sleeps, or
\* the poll raises
PollReturns(result) ==
    /\ run.phase = "poll"
    /\ run' = CASE result = "ready" ->
                     [run EXCEPT !.phase = "act", !.wait_end = "returned",
                                 !.ui = Append(@, UiStep("wait", run.step, run.count))]
                [] result = "not_ready" ->
                     [run EXCEPT !.phase = "wait"]
                [] OTHER ->
                     [run EXCEPT !.phase = "handler", !.exc = "Exception",
                                 !.wait_end = "Exception"]
    /\ UNCHANGED <<pc, raw_content, messages, wrapper_model, obj, err, calls,
                   responses, parse_attempts, outcome, messages0, lab, adapter,
                   session>>

\* lines 106, 120 and 163, 171: the deadline has passed when the loop
\* condition is evaluated
WaitTimesOut ==
    /\ run.phase = "wait"
    /\ run.left = 0
    /\ run' = [run EXCEPT !.phase = "handler", !.exc = "TimeoutError",
                          !.wait_end = "TimeoutError"]
    /\ UNCHANGED <<pc, raw_content, messages, wrapper_model, obj, err, calls,
                   responses, parse_attempts, outcome, messages0, lab, adapter,
                   session>>

\* time.time() moves on while a poll is in flight or the wait sleeps
Tick ==
    /\ run.phase \in {"wait", "poll"}
    /\ run.left > 0
    /\ run' = [run EXCEPT !.left = @ - 1]
    /\ UNCHANGED <<pc, raw_content, messages, wrapper_model, obj, err, calls,
                   responses, parse_attempts, outcome, messages0, lab, adapter,
                   session>>

\* run_test lines 74-83: the success screenshot, whose failure is only
\* logged, and the return of the final URL
SuccessScreenshot ==
    /\ run.driver = "start"
    /\ run.phase = "shot"
    /\ \E written \in BOOLEAN :
          run' = [run EXCEPT !.phase = "finally", !.ret = "final_url",
                             !.files = IF written
                                       THEN @ \cup {<<ArtifactDir, "start-single-player.png">>}
                                       ELSE @]
    /\ UNCHANGED <<pc, raw_content, messages, wrapper_model, obj, err, calls,
                   responses, parse_attempts, outcome, messages0, lab, adapter,
                   session>>

\* a handler that takes the screenshot and lets the exception go
HandleFailure_Swallows ==
    /\ run.driver = "start"
    /\ run.phase = "handler"
    /\ \E written \in BOOLEAN :
          run' = [run EXCEPT !.phase = "finally", !.exc = "none",
                             !.shots = IF run.started THEN @ + 1 ELSE @,
                             !.files = IF run.started /\ written
                                       THEN @ \cup {<<ArtifactDir, "start-single-player-error.png">>}
                                       ELSE @]
    /\ UNCHANGED <<pc, raw_content, messages, wrapper_model, obj, err, calls,
                   responses, parse_attempts, outcome, messages0, lab, adapter,
                   session>>

\* run_test lines 85-94: "except Exception": one failure screenshot when
\* the session was started, its failure only logged, then "raise"
HandleFailure ==
    /\ run.driver = "start"
    /\ run.phase = "handler"
    /\ \E written \in BOOLEAN :
          run' = [run EXCEPT !.phase = "finally", !.raised = run.exc,
                             !.shots = IF run.started THEN @ + 1 ELSE @,
                             !.files = IF run.started /\ written
                                       THEN @ \cup {<<ArtifactDir, "start-single-player-error.png">>}
                                       ELSE @]
    /\ UNCHANGED <<pc, raw_content, messages, wrapper_model, obj, err, calls,
                   responses, parse_attempts, outcome, messages0, lab, adapter,
                   session>>

\* run_test lines 96-98: "finally": browser.stop() when the session was
\* started; an exception of stop() takes the place of the one in flight
StopBrowser ==
    /\ run.driver = "start"
    /\ run.phase = "finally"
    /\ \/ /\ ~run.started
          /\ run' = [run EXCEPT !.phase = "completed"]
       \/ /\ run.started
          /\ \/ run' = [run EXCEPT !.phase = "completed", !.stops = @ + 1,
                                   !.browser = "stopped"]
             \/ run' = [run EXCEPT !.phase = "completed", !.stops = @ + 1,
                                   !.browser = "stop_failed", !.ret = "none",
                                   !.exc = "Exception"]
    /\ UNCHANGED <<pc, raw_content, messages, wrapper_model, obj, err, calls,
                   responses, parse_attempts, outcome, messages0, lab, adapter,
                   session>>

\* main of start_single_player_test.py, lines 180-189: PASS is printed, or
\* "except Exception" raises SystemExit(1); any other exception leaves the
\* process through the interpreter
StartMain ==
    /\ run.driver = "start"
    /\ run.phase = "completed"
    /\ run' = [run EXCEPT !.phase = "exited",
                          !.exit_code = CASE run.exc = "none" -> 0
                                          [] run.exc = "CancelledError" -> 130
                                          [] OTHER -> 1]
    /\ UNCHANGED <<pc, raw_content, messages, wrapper_model, obj, err, calls,
                   responses, parse_attempts, outcome, messages0, lab, adapter,
                   session>>

\* the user interrupts the process while the run function is suspended in
\* its body: asyncio.run cancels the task and CancelledError, which is no
\* Exception, is raised at the await
Interrupt ==
    /\ run.phase \in {"act", "wait", "poll", "running"}
    /\ run' = [run EXCEPT !.phase = "finally", !.exc = "CancelledError",
                          !.wait_end = IF run.phase \in {"wait", "poll"}
                                       THEN "CancelledError" ELSE @]
    /\ UNCHANGED <<pc, raw_content, messages, wrapper_model, obj, err, calls,
                   responses, parse_attempts, outcome, messages0, lab, adapter,
                   session>>

\* how the run function of an agent driver leaves its try block on an
\* Exception: ai_smoke_test.py lines 639-644 log and re-raise,
\* ai_smoke_test_fixed.py lines 227-231 return False
Failed(name) ==
    IF run.driver = "fixed"
    THEN [run EXCEPT !.phase = "finally", !.ret = "False"]
    ELSE [run EXCEPT !.phase = "finally", !.exc = name, !.raised = name]

\* ai_smoke_test.py lines 578-587, ai_smoke_test_fixed.py lines 142-156:
\* the connection test, then the browser session is made and started
Setup ==
    /\ run.driver \in {"main", "clean", "fixed"}
    /\ run.phase = "begin"
    /\ \/ run' = IF run.driver = "fixed"
                 THEN [run EXCEPT !.phase = "finally", !.ret = "False"]
                 ELSE [run EXCEPT !.phase = "finally", !.exc = "SystemExit"]
       \/ run' = [run EXCEPT !.phase = "running", !.started = TRUE,
                             !.browser = "open"]
       \/ run' = [Failed("Exception") EXCEPT !.started = TRUE]
    /\ UNCHANGED <<pc, raw_content, messages, wrapper_model, obj, err, calls,
                   responses, parse_attempts, outcome, messages0, lab, adapter,
                   session>>

\* ai_smoke_test.py line 604, ai_smoke_test_fixed.py line 195: agent.run()
\* returns or raises
DriverRuns ==
    /\ run.driver \in {"main", "clean", "fixed"}
    /\ run.phase = "running"
    /\ \/ run' = [run EXCEPT !.phase = "check"]
       \/ run' = Failed("Exception")
    /\ UNCHANGED <<pc, raw_content, messages, wrapper_model, obj, err, calls,
                   responses, parse_attempts, outcome, messages0, lab, adapter,
                   session>>

\* ai_smoke_test.py lines 609-637: no page, or the content is read, the
\* marker looked for and the screenshot written, all before PASS or FAIL
\* is decided; an exception of content() or screenshot() propagates
MainChecksPage ==
    /\ run.driver \in {"main", "clean"}
    /\ run.phase = "check"
    /\ \/ run' = [run EXCEPT !.phase = "finally", !.exc = "SystemExit"]
       \/ run' = [Failed("Exception") EXCEPT !.page = TRUE]
       \/ \E found \in BOOLEAN :
            \/ run' = [Failed("Exception") EXCEPT
                          !.page = TRUE,
                          !.marker = IF found THEN "found" ELSE "absent"]
            \/ run' = [run EXCEPT
                          !.phase = "finally", !.page = TRUE,
                          !.marker = IF found THEN "found" ELSE "absent",
                          !.files = @ \cup {<<ArtifactDir, "final.png">>},
                          !.exc = IF found THEN "none" ELSE "SystemExit",
                          !.ret = IF found THEN "None" ELSE "none"]
    /\ UNCHANGED <<pc, raw_content, messages, wrapper_model, obj, err, calls,
                   responses, parse_attempts, outcome, messages0, lab, adapter,
                   session>>

\* ai_smoke_test_fixed.py lines 203-225: every exception, that of a missing
\* page included, gives False; the marker found gives True with no file
\* written; the marker absent writes final_screenshot.png to the working
\* directory and gives False
FixedChecksPage ==
    /\ run.driver = "fixed"
    /\ run.phase = "check"
    /\ \/ run' = [run EXCEPT !.phase = "finally", !.ret = "False"]
       \/ run' = [run EXCEPT !.phase = "finally", !.ret = "False", !.page = TRUE]
       \/ run' = [run EXCEPT !.phase = "finally", !.ret = "True", !.page = TRUE,
                             !.marker = "found"]
       \/ \E written \in BOOLEAN :
            run' = [run EXCEPT !.phase = "finally", !.ret = "False",
                               !.page = TRUE, !.marker = "absent",
                               !.files = IF written
                                         THEN @ \cup {<<".", "final_screenshot.png">>}
                                         ELSE @]
    /\ UNCHANGED <<pc, raw_content, messages, wrapper_model, obj, err, calls,
                   responses, parse_attempts, outcome, messages0, lab, adapter,
                   session>>

\* a cleanup that is skipped when an exception is in flight
DriverCleanup_OnSuccessOnly ==
    /\ run.driver \in {"main", "clean", "fixed"}
    /\ run.phase = "finally"
    /\ \/ /\ ~run.started \/ run.exc # "none"
          /\ run' = [run EXCEPT !.phase = "completed"]
       \/ /\ run.started /\ run.exc = "none"
          /\ \E b \in {"stopped", "stop_failed"} :
                run' = [run EXCEPT !.phase = "completed", !.stops = @ + 1,
                                   !.browser = b]
    /\ UNCHANGED <<pc, raw_content, messages, wrapper_model, obj, err, calls,
                   responses, parse_attempts, outcome, messages0, lab, adapter,
                   session>>

\* ai_smoke_test.py lines 645-652, ai_smoke_test_fixed.py lines 233-241:
\* "finally": browser_session.stop() when the name is bound; an exception
\* of stop() is only logged
DriverCleanup ==
    /\ run.driver \in {"main", "clean", "fixed"}
    /\ run.phase = "finally"
    /\ \/ /\ ~run.started
          /\ run' = [run EXCEPT !.phase = "completed"]
       \/ /\ run.started
          /\ \E b \in {"stopped", "stop_failed"} :
                run' = [run EXCEPT !.phase = "completed", !.stops = @ + 1,
                                   !.browser = b]
    /\ UNCHANGED <<pc, raw_content, messages, wrapper_model, obj, err, calls,
                   responses, parse_attempts, outcome, messages0, lab, adapter,
                   session>>

\* ai_smoke_test.py lines 654-662: asyncio.run(main()); SystemExit(1) and a
\* re-raised Exception end the process with code 1, "except
\* KeyboardInterrupt" only logs
MainExits ==
    /\ run.driver \in {"main", "clean"}
    /\ run.phase = "completed"
    /\ run' = [run EXCEPT !.phase = "exited",
                          !.exit_code = IF run.exc \in {"SystemExit", "Exception"}
                                        THEN 1 ELSE 0]
    /\ UNCHANGED <<pc, raw_content, messages, wrapper_model, obj, err, calls,
                   responses, parse_attempts, outcome, messages0, lab, adapter,
                   session>>

\* ai_smoke_test_fixed.py lines 245-265: sys.exit(0) for True, sys.exit(1)
\* for False; an interrupt ends the process with 1 ("except
\* KeyboardInterrupt") or, raised by asyncio.run, with 130
FixedExits ==
    /\ run.driver = "fixed"
    /\ run.phase = "completed"
    /\ \E code \in (IF run.exc = "CancelledError" THEN {1, 130}
                    ELSE IF run.ret = "True" THEN {0} ELSE {1}) :
          run' = [run EXCEPT !.phase = "exited", !.exit_code = code]
    /\ UNCHANGED <<pc, raw_content, messages, wrapper_model, obj, err, calls,
                   responses, parse_attempts, outcome, messages0, lab, adapter,
                   session>>

RunNext ==
    \/ StartBrowser
    \/ Proceed
    \/ PollStarts
    \/ \E result \in {"ready", "not_ready", "raises"} : PollReturns(result)
    \/ WaitTimesOut
    \/ Tick
    \/ SuccessScreenshot
    \/ HandleFailure
    \/ StopBrowser
    \/ StartMain
    \/ Interrupt
    \/ Setup
    \/ DriverRuns
    \/ MainChecksPage
    \/ FixedChecksPage
    \/ DriverCleanup
    \/ MainExits
    \/ FixedExits

RunSpec == RunInit /\ [][RunNext]_vars

\* the clock moves on and a driver that can take a step takes one
RunLiveSpec == RunSpec /\ WF_vars(RunNext) /\ WF_vars(Tick)


\* ------------------------------------------------------------------------
\* Properties of validate_and_retry_llm_response (checked under Spec)
\* ------------------------------------------------------------------------

Terminal == pc \in {"returned", "raised"}

\* parse_action returns a failure for t
FailsParse(t) == parse_action(t).err # None

\* parse_action returns an object for t
Parses(t) == parse_action(t).err = None /\ parse_action(t).exc = None

\* the i-th model call returned a text that parse_action rejects / accepts
RespondedBad(i) ==
    /\ i <= Len(responses)
    /\ responses[i].kind = "text"
    /\ FailsParse(responses[i].text)

RespondedGood(i) ==
    /\ i <= Len(responses)
    /\ responses[i].kind = "text"
    /\ Parses(responses[i].text)

\* the text of the last model response received, None when none was
LastResponseText ==
    LET got == {i \in 1..Len(responses) : responses[i].kind = "text"}
    IN  IF got = {} THEN None
        ELSE responses[CHOOSE i \in got : \A j \in got : j <= i].text

\* the texts handed to parse_action so far, in order
IsText(r) == r.kind = "text"

Attempts ==
    LET got == SelectSeq(responses, IsText)
    IN  <<raw_content>> \o [i \in 1..Len(got) |-> got[i].text]

\* the failure of the last parse attempt that returned
LastParseFailure ==
    LET ret == {i \in 1..Len(Attempts) : parse_action(Attempts[i]).exc = None}
    IN  IF ret = {} THEN None
        ELSE parse_action(Attempts[CHOOSE i \in ret : \A j \in ret : j <= i]).err

\* the initial text and every model response fail parse_action
C1_AllFail ==
    /\ Terminal
    /\ FailsParse(raw_content)
    /\ \A i \in 1..Len(responses) : RespondedBad(i)

\* C1: when the initial text and every model response fail parse_action, the
\* coordinator ends with the terminal ValueError after exactly 2 retry model
\* calls and 3 parse attempts, and it never issues a third model call.
C1_ExhaustsAfterTwoRetries ==
    /\ Len(calls) <= 2
    /\ C1_AllFail =>
          /\ outcome.kind = "ValueError"
          /\ Len(calls) = 2
          /\ Len(responses) = 2
          /\ parse_attempts = 3

C1_Witness ==
    /\ C1_AllFail
    /\ pc = "raised"
    /\ Len(responses) = 2

\* C2: when the initial text fails, the first retry response fails and the
\* final retry response parses, the coordinator returns the final response's
\* text with the Action parsed from it, having issued exactly 2 model calls.
C2_ThirdAttemptSucceeds ==
    (/\ Terminal
     /\ FailsParse(raw_content)
     /\ RespondedBad(1)
     /\ RespondedGood(2))
    => /\ outcome = Return(responses[2].text, parse_action(responses[2].text).obj)
       /\ Len(calls) = 2

C2_Witness ==
    /\ pc = "returned"
    /\ FailsParse(raw_content)
    /\ RespondedBad(1)
    /\ RespondedGood(2)
    /\ responses[2].text # raw_content

\* C3: the terminal error carries the parse failure of the last attempt and
\* the raw text of the last model response received.
C3_CarriesLastResponse ==
    (outcome.kind = "ValueError" /\ LastResponseText # None)
    => /\ outcome.err = LastParseFailure
       /\ outcome.text = LastResponseText

\* C4 as stated: a raised model call is propagated at once, and no model
\* call follows it.
C4_RaisePropagates ==
    \A i \in 1..Len(responses) :
        responses[i].kind = "raise"
        => /\ Len(calls) = i
           /\ Len(responses) = i
           /\ outcome.kind = "Exception"

\* C4, amended: an Exception raised by a model call of the coordinator is
\* caught and never propagated; after a raising first retry call the final
\* retry call is issued, and after a raising final retry call the terminal
\* ValueError is raised with the failure of the last parse attempt made.
C4_RaiseIsCaught ==
    \A i \in 1..Len(responses) :
        responses[i].kind = "raise"
        => /\ outcome.kind \in {"none", "return", "ValueError"}
           /\ i = 1 => (Len(calls) = 2 /\ calls[2] = FinalRequest)
           /\ i = 2 => (pc = "raised" /\ outcome = RaiseValueError(LastParseFailure, raw_content))

C4_Witness ==
    /\ Len(responses) = 2
    /\ responses[1].kind = "raise"
    /\ responses[2].kind = "raise"
    /\ pc = "raised"

\* C5: if the initial raw text parses, the coordinator returns (raw text,
\* Action) immediately and issues zero model calls.
C5_ValidReturnsAtOnce ==
    (pc # "start" /\ Parses(raw_content))
    => /\ pc = "returned"
       /\ outcome = Return(raw_content, parse_action(raw_content).obj)
       /\ calls = <<>>
       /\ responses = <<>>

C5_Witness ==
    /\ pc = "returned"
    /\ raw_content = ProseObject
    /\ calls = <<>>

\* C6: if the initial text fails to parse and the first retry response
\* parses, the coordinator returns after exactly 1 model call; the final
\* retry call is issued only after the first retry has completed without
\* yielding a valid Action.
C6_FirstRetrySucceeds ==
    /\ (FailsParse(raw_content) /\ RespondedGood(1))
       => /\ pc = "returned"
          /\ Len(calls) = 1
          /\ outcome = Return(responses[1].text, parse_action(responses[1].text).obj)
    /\ Len(calls) = 2
       => /\ Len(responses) >= 1
          /\ ~RespondedGood(1)

C6_Witness ==
    /\ FailsParse(raw_content)
    /\ RespondedGood(1)
    /\ pc = "returned"

\* C7: the first corrective retry message contains the exact failure string
\* of the initial parse_action call together with the minimal goto example
\* for APP_URL; the final retry message contains the literal minimal
\* template and no failure string.
C7_RetryMessages ==
    /\ Len(calls) >= 1
       => calls[1].messages[1].content =
              [instr |-> "Reply with ONLY JSON: ",
               example |-> GotoTemplate(APP_URL),
               error |-> parse_action(raw_content).err]
    /\ Len(calls) >= 2
       => calls[2].messages[1].content =
              [instr |-> "Respond exactly: ",
               example |-> GotoTemplate(APP_URL),
               error |-> None]

C7_Witness ==
    /\ Len(calls) = 2
    /\ raw_content = NoJsonText
    /\ calls[1].messages[1].content.error = Failure("no-json")
    /\ RespondedBad(1)
    /\ responses[1].text = BadJsonText

\* C8: every retry call uses the wrapper's own model, temperature 0.1 and a
\* message list of exactly one user message; the caller's conversation is
\* neither sent in a retry call nor modified.
C8_SingleTurnRetries ==
    /\ messages = messages0
    /\ \A i \in 1..Len(calls) :
        /\ calls[i].model = wrapper_model
        /\ calls[i].temperature = RetryTemperature
        /\ Len(calls[i].messages) = 1
        /\ calls[i].messages[1].role = "user"
        /\ \A j \in 1..Len(messages0), k \in 1..Len(calls[i].messages) :
               calls[i].messages[k] # messages0[j]

C8_Witness ==
    /\ Terminal
    /\ Len(calls) = 2
    /\ Len(messages) = 2
    /\ wrapper_model # MODEL

\* ------------------------------------------------------------------------
\* Properties of parse_action (checked under ParseSpec)
\* ------------------------------------------------------------------------

Tokens(s) == {s[i] : i \in 1..Len(s)}

\* the text holds exactly one well-formed action object, inside prose
C9_Embedded ==
    /\ lab.phase \in {"parsed", "fenced"}
    /\ lab.body \in ActionObjects

C9_ProseIsClean ==
    /\ "{" \notin Tokens(LabBefore)
    /\ "}" \notin Tokens(LabAfter)
    /\ FenceShaped(LabRaw)
       => /\ "NL" \in Tokens(LStrip(LabBefore))
          /\ "NL" \in Tokens(RStrip(LabAfter))

C10_AnyFence ==
    lab.phase = "fenced" => lab.fres = lab.res

\* C10, amended: for every content C whose trimmed text does not itself
\* open and close with a triple backtick, parsing C wrapped in a fence whose
\* delimiters (with or without the json tag) stand on lines of their own
\* gives the same result as parsing C unfenced.
C10_OwnLineFence ==
    (/\ lab.phase = "fenced"
     /\ lab.style \in OwnLineStyles
     /\ ~FenceShaped(LabRaw))
    => lab.fres = lab.res

C10_Witness ==
    /\ lab.phase = "fenced"
    /\ lab.style = "own_lines_json"
    /\ ~FenceShaped(LabRaw)
    /\ lab.body \in ActionObjects
    /\ lab.pre = <<"word">>
    /\ lab.fres.err = None
    /\ lab.fres = lab.res


\* the de-fenced text of the laboratory's input
LabContent == Defence(LabRaw)

\* some "{" of the text stands before some "}" of it
HasBracePair(c) ==
    \E i, j \in 1..Len(c) : i < j /\ c[i] = "{" /\ c[j] = "}"

\* the substring from the first "{" to the last "}" inclusive
BraceSpan(c) ==
    LET opens == {i \in 1..Len(c) : c[i] = "{"}
        closes == {j \in 1..Len(c) : c[j] = "}"}
        first == CHOOSE i \in opens : \A k \in opens : i <= k
        last == CHOOSE j \in closes : \A k \in closes : k <= j
    IN  SubSeq(c, first, last)

LabParsed == lab.phase \in {"parsed", "fenced"}

\* C11: parse_action returns "no-json" exactly when the de-fenced text has
\* no "{", has no "}", or its last "}" does not occur after its first "{"
\* (that is, when no "{" stands before a "}"); in every other case the result
\* is that of decoding the substring from the first "{" to the last "}".
C11_NoJsonExactly ==
    LabParsed =>
        /\ lab.res = Result(None, Failure("no-json")) <=> ~HasBracePair(LabContent)
        /\ HasBracePair(LabContent) =>
              LET scan == JsonScan(BraceSpan(LabContent))
              IN  /\ scan.exc = "JSONDecodeError" <=> lab.res = Result(None, BadJson(scan.pos))
                  /\ scan.exc = "RecursionError" <=> lab.res.exc # None
                  /\ scan.ok <=> /\ lab.res.exc = None
                                 /\ lab.res.err \in {None, Failure("no-action"), Failure("no-params")}
                  /\ lab.res.obj # None => lab.res.obj = <<JsonLoads(BraceSpan(LabContent))>>

C11_Witness ==
    /\ LabParsed
    /\ "{" \in Tokens(LabContent)
    /\ "}" \in Tokens(LabContent)
    /\ lab.res.err = Failure("no-json")

\* C12: when the substring from the first "{" to the last "}" is not decoded
\* as JSON, parse_action returns no object and a failure tagged bad-json with
\* the decoder's diagnostic; it never raises for any input text.
C12_BadJsonNeverRaises ==
    LabParsed =>
        /\ lab.res.exc = None
        /\ (HasBracePair(LabContent) /\ ~JsonScan(BraceSpan(LabContent)).ok)
           => lab.res = Result(None, BadJson(JsonScan(BraceSpan(LabContent)).pos))

\* C13: a decoded object without key action yields "no-action" (also when
\* params is missing too); one with action but without params yields
\* "no-params"; exactly one of (object, failure) is non-null in every result.
C13_MissingKeys ==
    LabParsed =>
        /\ (HasBracePair(LabContent) /\ JsonScan(BraceSpan(LabContent)).ok)
           => LET d == JsonLoads(BraceSpan(LabContent))
              IN  /\ "kAction" \notin DOMAIN d
                     => lab.res = Result(None, Failure("no-action"))
                  /\ ("kAction" \in DOMAIN d /\ "kParams" \notin DOMAIN d)
                     => lab.res = Result(None, Failure("no-params"))
        /\ lab.res.exc = None => ((lab.res.obj = None) # (lab.res.err = None))

C13_Witness ==
    /\ LabParsed
    /\ lab.body = <<"{", "}">>
    /\ lab.pre = <<"word">>
    /\ lab.res = Result(None, Failure("no-action"))

\* the JSON strings of the model that are not empty
NonEmptyStrings == {<<"sGoto">>, <<"sClick">>, <<APP_URL>>}

\* C14: every Action that parse_action returns as a success has an action
\* value that is a non-empty string, and a params entry.
C14_ActionInvariant ==
    (LabParsed /\ lab.res.obj # None)
    => /\ "kAction" \in DOMAIN lab.res.obj[1]
       /\ "kParams" \in DOMAIN lab.res.obj[1]
       /\ lab.res.obj[1]["kAction"] \in NonEmptyStrings

\* ------------------------------------------------------------------------
\* Response Normalizer and adapter (AdapterSpec)
\* ------------------------------------------------------------------------

\* create has returned a decorated response to the host
Decorated == adapter.phase = "done" /\ adapter.result.kind = "response"

\* the choices of the response, by position
ChoiceIndices == 1..Len(adapter.upstream.choices)

\* C15: every choice whose content fails the Action Parser (no-json,
\* bad-json, no-action, no-params) gets the fallback action (click on
\* "Start Single Player") attached.
C15_FallbackOnFailure ==
    Decorated =>
        \A i \in ChoiceIndices :
            FailsParse(adapter.upstream.choices[i].content)
            => adapter.result.choices[i].action = <<FallbackAction>>

\* C16: normalization does not raise, and afterwards every choice of the
\* response carries an action, whatever the other choices hold.
C16_EveryChoiceHasAction ==
    (adapter.phase = "done" /\ adapter.upstream.kind = "response")
    => /\ adapter.result.kind = "response"
       /\ \A i \in ChoiceIndices : adapter.result.choices[i].action # None

\* C17: for every choice whose content the Action Parser accepts, the action
\* attached equals the Action the parser returns for that content, and the
\* content of the choice is left as it was.
C17_AcceptedContent ==
    Decorated =>
        \A i \in ChoiceIndices :
            Parses(adapter.upstream.choices[i].content)
            => /\ adapter.result.choices[i].action
                    = parse_action(adapter.upstream.choices[i].content).obj
               /\ adapter.result.choices[i].content
                    = adapter.upstream.choices[i].content

C17_Witness ==
    /\ Decorated
    /\ adapter.variant = "clean"
    /\ Len(adapter.upstream.choices) = 2
    /\ adapter.upstream.choices[1].content = BadJsonText
    /\ adapter.upstream.choices[2].content = FencedObject
    /\ adapter.result.choices[1].action = <<FallbackAction>>
    /\ adapter.result.choices[2].action = <<JsonLoads(ClickObject)>>
    /\ adapter.result.choices[2].content = FencedObject

\* C18: the usage of a response that passed through the adapter is the
\* six-field record: the three token counts of the upstream usage (0 for an
\* absent one), three zeros, and six zeros when the upstream has no usage.
C18_UsageRecord ==
    Decorated =>
        adapter.result.usage
            = UsageDict(GetAttr(adapter.upstream.usage, "prompt_tokens"),
                        GetAttr(adapter.upstream.usage, "completion_tokens"),
                        GetAttr(adapter.upstream.usage, "total_tokens"))

\* C19: normalizing a normalized response again changes no action of any
\* choice and leaves the usage record, its token counts included, as it was.
C19_Idempotent ==
    adapter.phase = "renormalized"
    => /\ \A i \in ChoiceIndices :
            adapter.result.choices[i].action = adapter.prior.choices[i].action
       /\ adapter.result.usage = adapter.prior.usage

\* C20: a host call by either convention, ainvoke(messages) or
\* chat.completions.create(messages=...), completes one model call and
\* returns the response decorated in the same way; no call fails on the
\* wiring of the adapter.
C20_BothConventions ==
    adapter.phase = "done"
    => /\ adapter.result.kind # "AttributeError"
       /\ Len(adapter.calls) = 1
       /\ adapter.call_count = 1
       /\ adapter.upstream.kind = "response"
          => adapter.result = Normalize(adapter.variant, adapter.upstream)

\* ------------------------------------------------------------------------
\* One host call (InvokeSpec)
\* ------------------------------------------------------------------------

\* the host called a method named ainvoke
AinvokeConventions ==
    {"ainvoke_args", "ainvoke_kwargs", "completions_ainvoke_args",
     "completions_ainvoke_kwargs", "unbound_ainvoke_args", "unbound_ainvoke_kwargs"}

\* C21: ainvoke, given the message list as its positional argument or as the
\* keyword messages, sends exactly that list to the endpoint, once.
C21_DispatchesMessages ==
    (adapter.convention \in AinvokeConventions /\ adapter.phase # "host")
    => /\ Len(adapter.calls) = 1
       /\ adapter.calls[1].messages = adapter.handed

\* C22: what wrapper.ainvoke returns has an attribute action the host can
\* read, for every wrapper and every output of the model.
C22_ActionReadable ==
    (adapter.convention \in {"ainvoke_args", "ainvoke_kwargs"} /\ adapter.phase = "done")
    => /\ adapter.result.kind # "AttributeError"
       /\ adapter.result.kind = "response" => adapter.result.action # None

\* endpoint calls of the adapter that have not completed
AdapterOutstanding ==
    IF adapter.phase \in {"await", "await_ainvoke", "await_fixed"} THEN 1 ELSE 0

\* endpoint calls of the retry coordinator that have not completed
CoordinatorOutstanding == Len(calls) - Len(responses)

\* C24: at most one endpoint call is outstanding at any time; the adapter
\* and the coordinator issue a call only after the one before has returned
\* or raised, and a retry only after the text before it was parsed and not
\* accepted.
C24_OneCallAtATime ==
    /\ AdapterOutstanding + CoordinatorOutstanding \in {0, 1}
    /\ Len(adapter.calls) <= 1
    /\ pc # "adapter" => adapter.upstream.kind = "response"
    /\ Len(calls) >= 1 => (parse_attempts >= 1 /\ ~Parses(raw_content))
    /\ Len(calls) >= 2
       => /\ Len(responses) >= 1
          /\ IsText(responses[1])
             => (parse_attempts >= 2 /\ ~Parses(responses[1].text))

C24_Witness ==
    /\ adapter.phase = "validating"
    /\ pc = "await_final"
    /\ Len(calls) = 2
    /\ Len(responses) = 1
    /\ IsText(responses[1])
    /\ AdapterOutstanding + CoordinatorOutstanding = 1

\* C30: when validate_and_retry_llm_response gives up inside the ainvoke of
\* ai_smoke_test.py, ainvoke returns a response with the content the model
\* gave and with the action {"action": "error", "params": {}}.
C30_ExhaustedGivesErrorAction ==
    (adapter.phase = "done" /\ adapter.convention = "unbound_ainvoke_args"
        /\ outcome.kind = "ValueError")
    => /\ adapter.result.kind = "response"
       /\ adapter.result.completion = <<adapter.upstream.choices[1].content>>
       /\ adapter.result.action = <<ErrorAction>>

\* ------------------------------------------------------------------------
\* The call counter (SessionSpec)
\* ------------------------------------------------------------------------

\* host calls that have entered the create of the Agent's wrapper
HostCallsEntered ==
    session.entered + (IF adapter.phase \in {"await", "done"} /\ Entered THEN 1 ELSE 0)

\* the counters agree with the host calls made, and the counter has no
\* part in the result
CounterPerInstance ==
    /\ adapter.call_count = HostCallsEntered
    /\ session.peer.call_count = session.peer.started
    /\ session.test.call_count = session.test.started
    /\ (adapter.phase = "done" /\ adapter.result.kind = "response"
          /\ adapter.upstream = session.first)
       => adapter.result = session.first_result

\* no step lowers a counter, and a step raises the counter of at most one
\* instance, by one
CounterSteps ==
    /\ adapter'.call_count - adapter.call_count \in {0, 1}
    /\ session'.peer.call_count - session.peer.call_count \in {0, 1}
    /\ session'.test.call_count - session.test.call_count \in {0, 1}
    /\ (adapter'.call_count - adapter.call_count)
         + (session'.peer.call_count - session.peer.call_count)
         + (session'.test.call_count - session.test.call_count) <= 1

InWait == run.phase \in {"wait", "poll"}

C26_CleanupRuns ==
    (run.phase \in {"completed", "exited"} /\ run.started)
    => /\ run.stops = 1
       /\ run.browser \in {"stopped", "stop_failed"}

C26_Witness ==
    /\ run.phase = "completed"
    /\ run.driver = "main"
    /\ run.exc = "CancelledError"
    /\ run.stops = 1
    /\ run.browser = "stopped"

C28_ExitZeroIffMarker ==
    (run.driver \in {"main", "clean", "fixed"} /\ run.phase = "exited")
    => (run.exit_code = 0 <=> run.marker = "found")

\* C29: a run that reached the final page has written a screenshot file to
\* the artifact directory by the time the process exits.
C29_ScreenshotWritten ==
    (run.phase = "exited" /\ run.page)
    => \E f \in run.files : f[1] = ArtifactDir

\* ------------------------------------------------------------------------
\* ainvoke after a validation that succeeded (InvokeSpec)
\* ------------------------------------------------------------------------

\* C31: when validate_and_retry_llm_response has returned (text, Action)
\* inside the ainvoke of ai_smoke_test.py, the action of the response that
\* ainvoke returns is that Action, also for a text with prose or a fence
\* around the object.
C31_ActionIsValidated ==
    (adapter.phase = "done" /\ adapter.convention = "unbound_ainvoke_args"
        /\ outcome.kind = "return")
    => /\ adapter.result.kind = "response"
       /\ adapter.result.action = outcome.obj

\* ------------------------------------------------------------------------
\* What validate_and_retry_llm_response returns (Spec)
\* ------------------------------------------------------------------------

\* C32: when validate_and_retry_llm_response returns (text, action), the
\* text is the one handed to the parse attempt made last, that attempt
\* succeeded with exactly this action, and no attempt before it succeeded.
C32_ReturnsWhatParsed ==
    pc = "returned"
    => /\ outcome.kind = "return"
       /\ outcome.text = Attempts[Len(Attempts)]
       /\ Parses(outcome.text)
       /\ outcome.obj = parse_action(outcome.text).obj
       /\ \A i \in 1..(Len(Attempts) - 1) : ~Parses(Attempts[i])

C32_Witness ==
    /\ pc = "returned"
    /\ Len(calls) = 2
    /\ IsText(responses[1])
    /\ outcome.text = responses[2].text
    /\ outcome.text = ProseObject
    /\ outcome.text # raw_content

\* C33: an invocation of validate_and_retry_llm_response that has ended
\* made at most 2 model calls and at most 3 parse attempts, and it ended
\* with a (text, Action) pair or with the terminal ValueError.
C33_TwoOutcomes ==
    /\ Len(calls) <= 2
    /\ parse_attempts <= 3
    /\ Terminal => outcome.kind \in {"return", "ValueError"}

\* ------------------------------------------------------------------------
\* create and the endpoint (AdapterSpec)
\* ------------------------------------------------------------------------

\* C34: an invocation of create has issued exactly one endpoint call; when
\* that call raised, create ended with the same exception and returned no
\* response.
C34_OneCallNoRetry ==
    ((adapter.variant = "clean" \/ adapter.convention = "create")
        /\ adapter.phase # "host")
    => /\ Len(adapter.calls) = 1
       /\ (adapter.phase = "done" /\ adapter.upstream.kind = "none")
          => /\ adapter.result.kind = "Exception"
             /\ adapter.result.choices = <<>>
             /\ adapter.result.completion = None

C34_Witness ==
    /\ adapter.phase = "done"
    /\ adapter.convention = "create"
    /\ adapter.upstream.kind = "none"
    /\ adapter.result.kind = "Exception"
    /\ Len(adapter.calls) = 1
    /\ adapter.call_count = 1

\* ------------------------------------------------------------------------
\* The caller's conversation across create calls (SessionSpec)
\* ------------------------------------------------------------------------

\* how often the JSON-enforcement suffix stands in a message content
Enforcements(content) ==
    IF "enforced" \in DOMAIN content THEN content.enforced ELSE 0

\* C35: create of ai_smoke_test_clean.py leaves the caller's message list
\* as the caller supplied it, and in every request it sends each message
\* carries the JSON-enforcement suffix at most once.
C35_ConversationUnchanged ==
    adapter.variant = "clean"
    => /\ adapter.messages = adapter.handed
       /\ \A i \in 1..Len(adapter.calls) :
             \A j \in 1..Len(adapter.calls[i].messages) :
                Enforcements(adapter.calls[i].messages[j].content) <= 1

\* ------------------------------------------------------------------------
\* The action of FixedOpenAIWrapper.ainvoke (InvokeSpec)
\* ------------------------------------------------------------------------

\* C36: the action attached to the value FixedOpenAIWrapper.ainvoke returns
\* is a mapping with the key action: the object decoded from the first "{"
\* to the last "}" of the content when that decodes, the fallback click
\* action otherwise.
C36_FixedActionHasKey ==
    (adapter.variant = "fixed" /\ adapter.phase = "done"
        /\ adapter.result.kind = "response")
    => LET c == adapter.upstream.choices[1].content
           a == adapter.result.action[1]
       IN  /\ "kAction" \in DOMAIN a
           /\ a = IF HasBracePair(c) /\ JsonScan(BraceSpan(c)).ok
                  THEN JsonLoads(BraceSpan(c))
                  ELSE FallbackAction

\* ------------------------------------------------------------------------
\* The UI steps of run_test (RunSpec)
\* ------------------------------------------------------------------------

IsClick(e) == e.op = "click"

\* the clicks of a complete run that drew the player count n
ExpectedClicks(n) ==
    <<UiStep("click", 1, n), UiStep("click", 4, n), UiStep("click", 5, n)>>

\* the clicks made are the first of the expected ones in their order, each
\* right after a successful wait for its own selector, the player-count
\* click after the start-button click and the wait for /single-player, and
\* a run that returned made all three
UiOrder ==
    run.driver = "start"
    => LET clicks == SelectSeq(run.ui, IsClick)
       IN  /\ Len(clicks) <= 3
           /\ \A i \in 1..Len(clicks) : clicks[i] = ExpectedClicks(run.count)[i]
           /\ Len(clicks) >= 2 => run.count \in 2..10
           /\ \A i \in 1..Len(run.ui) :
                 IsClick(run.ui[i])
                 => /\ i > 1
                    /\ run.ui[i - 1] = [run.ui[i] EXCEPT !.op = "wait"]
           /\ \A i \in 1..Len(run.ui) :
                 run.ui[i] = UiStep("click", 4, run.count)
                 => \E j \in 1..(i - 1), k \in 1..(i - 1) :
                       /\ k < j
                       /\ run.ui[k] = UiStep("click", 1, 0)
                       /\ run.ui[j] = UiStep("wait", 2, 0)
           /\ run.ret = "final_url" => Len(clicks) = 3

\* a step taken with an exception in flight carries out no UI step
NoStepAfterRaise == run.exc # "none" => run'.ui = run.ui

====
